---- MODULE Spec2Model ----
(***************************************************************************)
(* DaimaPay C2B server: the /c2b-confirmation pipeline of src/server.js.   *)
(* Each request handler is an async function; it runs atomically between   *)
(* two awaits (Node's single thread), so every action below is one awaited *)
(* operation together with the synchronous code that follows it.           *)
(***************************************************************************)
EXTENDS Integers, Sequences, FiniteSets, TLC

\* ---------------------------------------------------------------- bounds
\* store operations that may be rejected in one run
MaxFaults == 1

\* two requests in flight at once; ids double as generated sale ids
Handlers == {1, 2}
TxIds == {"T1", "T2"}

\* ------------------------------------------------------ JavaScript values
\* A JS number is an IEEE 754 double. Num(n) is the double nearest to n
\* hundredths, which is what the literal or the parsed text n/100 denotes. A
\* computed number that is no such double is written as the double nearest
\* to v hundredths plus d units of 2^-61: 0.3 - 0.1 is 0.19999999999999998,
\* the double nearest to 0.20 less 64 units.
Num(n) == [t |-> "num", v |-> n, d |-> 0]
NaN == [t |-> "nan", v |-> 0, d |-> 0]
Null == [t |-> "null", v |-> 0, d |-> 0]
Undefined == [t |-> "undef", v |-> 0, d |-> 0]

\* the binade of n hundredths, 1 <= n < 204800: the p with
\* 2^p <= n/100 < 2^(p+1)
Binade(n) ==
    CHOOSE p \in (0 - 7)..10 :
        IF p >= 0 THEN 100 * 2^p <= n /\ n < 200 * 2^p
        ELSE 100 <= n * 2^(0 - p) /\ n * 2^(0 - p) < 200

\* long division: the further bits of a significand num/den in [1, 2), 13
\* bits at a time; the result is what is left to divide and whether the
\* last bit is 1
RECURSIVE Significand(_, _, _, _)
Significand(rem, den, odd, bits) ==
    IF bits = 0 THEN [rem |-> rem, odd |-> odd]
    ELSE Significand((rem * 2^13) % den, den, ((rem * 2^13) \div den) % 2 = 1, bits - 13)

\* the double nearest to n hundredths, n >= 1, rounded to 53 bits with ties
\* to even: the size of its last bit in units of 2^-61, whether that bit is
\* 1, whether the double is a power of two, and 25 times its distance from
\* n/100 in units of 2^-61. (The binade p and the division q are each
\* taken from a one-element set, which fixes them once.)
Nearest(n) ==
    LET Numerator(p) == IF p >= 0 THEN n ELSE n * 2^(0 - p)
        Denominator(p) == IF p >= 0 THEN 100 * 2^p ELSE 100
        Rounded(p, q) ==
            LET num == Numerator(p)
                den == Denominator(p)
                up == 2 * q.rem > den \/ (2 * q.rem = den /\ q.odd)
                unit == IF p >= 0 THEN 128 ELSE 2^(p + 7)
            IN [ulp |-> 2^(p + 9), odd |-> (q.odd # up), pow2 |-> (num = den),
                err |-> IF up THEN (den - q.rem) * unit ELSE 0 - q.rem * unit]
    IN CHOOSE r \in UNION {{Rounded(p, q) :
                               q \in {Significand(Numerator(p) - Denominator(p),
                                                  Denominator(p), TRUE, 52)}} :
                           p \in {Binade(n)}} : TRUE

\* 25 times the distance of the double nearest to n/100 from n/100
RepresentationError(n) ==
    IF n = 0 THEN 0 ELSE IF n > 0 THEN Nearest(n).err ELSE 0 - Nearest(0 - n).err

\* a + b on doubles: the exact sum, which is the double nearest to n
\* hundredths plus w units, rounded to the nearest double with ties to even;
\* just below a power of two the doubles are twice as dense. (The nearest
\* double nr and the operands' error e are fixed once, as in Nearest.)
AddDoubles(a, b) ==
    LET n == a.v + b.v
        sign == IF n > 0 THEN 1 ELSE 0 - 1
        Round(nr, e) ==
            LET w == ((e - sign * nr.err) \div 25) + a.d + b.d
                x == sign * w
                lower == nr.pow2 /\ x < 0
                g == IF lower THEN nr.ulp \div 2 ELSE nr.ulp
                q == x \div g
                rem == x - q * g
                odd == (~lower /\ nr.odd) # (q % 2 = 1)
                k == IF 2 * rem > g \/ (2 * rem = g /\ odd) THEN q + 1 ELSE q
            IN [t |-> "num", v |-> n, d |-> sign * k * g]
    IN IF n = 0
       THEN [t |-> "num", v |-> 0,
             d |-> ((RepresentationError(a.v) + RepresentationError(b.v)) \div 25) + a.d + b.d]
       ELSE CHOOSE r \in {Round(nr, e) :
                              nr \in {Nearest(sign * n)},
                              e \in {RepresentationError(a.v) + RepresentationError(b.v)}} : TRUE

\* a + b on JS numbers (NaN is absorbing)
JsAdd(a, b) ==
    CHOOSE r \in {IF x.t = "num" /\ y.t = "num" THEN AddDoubles(x, y) ELSE NaN :
                      x \in {a}, y \in {b}} : TRUE
\* unary minus
JsNeg(a) == IF a.t = "num" THEN [t |-> "num", v |-> 0 - a.v, d |-> 0 - a.d] ELSE NaN
\* x < 0 (false for NaN)
JsLtZero(a) == a.t = "num" /\ (a.v < 0 \/ (a.v = 0 /\ a.d < 0))
\* isNaN(x) for x a number
IsNaN(a) == a.t # "num"

\* The Firestore client is built without ignoreUndefinedProperties, so a
\* write whose data holds an undefined field is rejected by the client.
RejectsUndefined == TRUE

\* ------------------------------------------------------- phone numbers
\* A phone number is a sequence of one-character strings.
Digit == <<"0","1","2","3","4","5","6","7","8","9">>
Prefix3(n) == <<Digit[(n \div 100) + 1], Digit[((n \div 10) % 10) + 1], Digit[(n % 10) + 1]>>
PrefixSet(S) == {Prefix3(n) : n \in S}

safaricom == PrefixSet((110..119) \cup (700..729) \cup (740..746) \cup {748, 749}
                       \cup (757..759) \cup {768, 769} \cup (790..799))
airtel == PrefixSet((100..109) \cup (730..739) \cup (750..756) \cup (780..789))
telkom == PrefixSet(770..779)
equitel == PrefixSet(764..767)
faiba == PrefixSet({747})

StartsWith(s, p) == Len(s) >= Len(p) /\ SubSeq(s, 1, Len(p)) = p
Drop(s, k) == SubSeq(s, k + 1, Len(s))
\* The white space that String.prototype.trim, parseFloat and the conversion
\* of a string to a number strip: WhiteSpace and LineTerminator of the
\* language. In the order written: space, tab, line feed, carriage return,
\* form feed, vertical tab (U+000B), no-break space (U+00A0), ogham space
\* mark (U+1680) and the byte order mark (U+FEFF); then the characters that
\* a TLA+ string cannot hold, written by code point: the space separators
\* U+2000..U+200A, U+202F, U+205F and U+3000 and the line terminators U+2028
\* and U+2029.
WhiteSpace ==
    {" ", "\t", "\n", "\r", "\f", "", " ", " ", "﻿",
     "U+2000", "U+2001", "U+2002", "U+2003", "U+2004", "U+2005", "U+2006", "U+2007",
     "U+2008", "U+2009", "U+200A", "U+202F", "U+205F", "U+3000", "U+2028", "U+2029"}
IsSpace(c) == c \in WhiteSpace
RECURSIVE TrimLeft(_)
TrimLeft(s) == IF s # <<>> /\ IsSpace(Head(s)) THEN TrimLeft(Tail(s)) ELSE s
RECURSIVE TrimRight(_)
TrimRight(s) == IF s # <<>> /\ IsSpace(s[Len(s)]) THEN TrimRight(SubSeq(s, 1, Len(s) - 1)) ELSE s
Trim(s) == TrimRight(TrimLeft(s))

\* ------------------------------------------------- numbers read from text
\* Money is counted in hundredths of a shilling throughout: Num(n) is the
\* JavaScript number n / 100. (Numbers that are not a whole number of
\* hundredths, and the infinities, are not among the inputs.)
Str(chars) == [t |-> "str", v |-> chars, d |-> 0]
IsDigit(c) == \E i \in 1..10 : Digit[i] = c
DigitVal(c) == (CHOOSE i \in 1..10 : Digit[i] = c) - 1
RECURSIVE TakeDigits(_)
TakeDigits(s) == IF s # <<>> /\ IsDigit(Head(s)) THEN <<Head(s)>> \o TakeDigits(Tail(s)) ELSE <<>>
RECURSIVE DigitsValue(_)
DigitsValue(ds) ==
    IF ds = <<>> THEN 0
    ELSE DigitsValue(SubSeq(ds, 1, Len(ds) - 1)) * 10 + DigitVal(ds[Len(ds)])
RECURSIVE Pow10(_)
Pow10(k) == IF k = 0 THEN 1 ELSE 10 * Pow10(k - 1)

\* ExponentPart at the head of s: e or E, an optional sign, digits; len is
\* the number of characters it takes, 0 when there is none
ExponentPart(s) ==
    IF s = <<>> \/ Head(s) \notin {"e", "E"} THEN [len |-> 0, exp |-> 0]
    ELSE LET r == Tail(s)
             signed == r # <<>> /\ Head(r) \in {"-", "+"}
             d == TakeDigits(IF signed THEN Tail(r) ELSE r)
         IN IF d = <<>> THEN [len |-> 0, exp |-> 0]
            ELSE [len |-> 1 + (IF signed THEN 1 ELSE 0) + Len(d),
                  exp |-> IF signed /\ Head(r) = "-" THEN 0 - DigitsValue(d) ELSE DigitsValue(d)]

\* the digits ip.fp times ten to the exp, in hundredths
Scaled(ip, fp, exp) ==
    LET k == exp + 2 - Len(fp)
        m == DigitsValue(ip \o fp)
    IN IF k >= 0 THEN m * Pow10(k) ELSE m \div Pow10(0 - k)

\* the longest StrDecimalLiteral (unsigned) at the head of u: digits, an
\* optional point and digits, an optional exponent
DecimalPrefix(u) ==
    LET ip == TakeDigits(u)
        rest == Drop(u, Len(ip))
        dot == rest # <<>> /\ Head(rest) = "."
        fp == IF dot THEN TakeDigits(Tail(rest)) ELSE <<>>
        mantissa == Len(ip) + (IF dot THEN 1 ELSE 0) + Len(fp)
        e == ExponentPart(Drop(u, mantissa))
    IN [ok |-> ip # <<>> \/ fp # <<>>, len |-> mantissa + e.len, v |-> Scaled(ip, fp, e.exp)]

\* parseFloat(string): leading white space skipped, an optional sign, the
\* longest decimal literal; what follows is ignored; NaN when there is no
\* digit.
parseFloat(str) ==
    LET t == TrimLeft(str)
        signed == t # <<>> /\ Head(t) \in {"-", "+"}
        d == DecimalPrefix(IF signed THEN Tail(t) ELSE t)
    IN IF ~d.ok THEN NaN
       ELSE Num(IF signed /\ Head(t) = "-" THEN 0 - d.v ELSE d.v)

\* parseFloat(value): the argument is converted to a string first, so a
\* number parses to itself and undefined, null and NaN give NaN
parseFloatOf(x) ==
    CASE x.t = "num" -> x
      [] x.t = "str" -> parseFloat(x.v)
      [] OTHER -> NaN

\* 0x, 0o and 0b literals: the value of a digit in either case, 16 for any
\* other character
HexDigits == << <<"0","1","2","3","4","5","6","7","8","9","a","b","c","d","e","f">>,
               <<"0","1","2","3","4","5","6","7","8","9","A","B","C","D","E","F">> >>
RadixVal(c) ==
    IF \E i \in 1..16 : HexDigits[1][i] = c \/ HexDigits[2][i] = c
    THEN (CHOOSE i \in 1..16 : HexDigits[1][i] = c \/ HexDigits[2][i] = c) - 1
    ELSE 16
RECURSIVE RadixValue(_, _)
RadixValue(ds, radix) ==
    IF ds = <<>> THEN 0
    ELSE RadixValue(SubSeq(ds, 1, Len(ds) - 1), radix) * radix + RadixVal(ds[Len(ds)])
Radix(s) ==
    IF Len(s) < 2 \/ s[1] # "0" THEN 0
    ELSE IF s[2] \in {"x", "X"} THEN 16
    ELSE IF s[2] \in {"o", "O"} THEN 8
    ELSE IF s[2] \in {"b", "B"} THEN 2
    ELSE 0

\* StringToNumber: white space trimmed at both ends; the empty string is 0;
\* the whole of what is left must be one numeric literal
StringToNumber(chars) ==
    LET t == Trim(chars)
        radix == Radix(t)
        ds == Drop(t, 2)
        signed == t # <<>> /\ Head(t) \in {"-", "+"}
        u == IF signed THEN Tail(t) ELSE t
        d == DecimalPrefix(u)
    IN IF t = <<>> THEN Num(0)
       ELSE IF radix # 0
       THEN IF ds # <<>> /\ \A i \in 1..Len(ds) : RadixVal(ds[i]) < radix
            THEN Num(RadixValue(ds, radix) * 100) ELSE NaN
       ELSE IF d.ok /\ d.len = Len(u)
       THEN Num(IF signed /\ Head(t) = "-" THEN 0 - d.v ELSE d.v)
       ELSE NaN

\* a replacement that knows the +254 form only
ReplaceCountryCode_PlusOnly(s) ==
    IF StartsWith(s, <<"+","2","5","4">>) THEN <<"0">> \o Drop(s, 4) ELSE s

\* phoneNumber.replace(/^(\+254|254)/, '0')
ReplaceCountryCode(s) ==
    IF StartsWith(s, <<"+","2","5","4">>) THEN <<"0">> \o Drop(s, 4)
    ELSE IF StartsWith(s, <<"2","5","4">>) THEN <<"0">> \o Drop(s, 3)
    ELSE s

detectCarrier(phoneNumber) ==
    LET normalized == Trim(ReplaceCountryCode(phoneNumber))
    IN IF Len(normalized) # 10 \/ ~StartsWith(normalized, <<"0">>) THEN "Unknown"
       ELSE LET prefix3 == SubSeq(normalized, 2, 4)
            IN IF prefix3 \in safaricom THEN "Safaricom"
               ELSE IF prefix3 \in airtel THEN "Airtel"
               ELSE IF prefix3 \in telkom THEN "Telkom"
               ELSE IF prefix3 \in equitel THEN "Equitel"
               ELSE IF prefix3 \in faiba THEN "Faiba"
               ELSE "Unknown"

\* a switch without the case for Faiba
FloatLogicalName_NoFaiba(carrier) ==
    IF carrier = "Safaricom" THEN "safaricomFloat"
    ELSE IF carrier \in {"Airtel", "Telkom", "Equitel"} THEN "africasTalkingFloat"
    ELSE "none"

\* the switch of the confirmation handler: carrier -> float logical name
FloatLogicalName(carrier) ==
    IF carrier = "Safaricom" THEN "safaricomFloat"
    ELSE IF carrier \in {"Airtel", "Telkom", "Equitel", "Faiba"} THEN "africasTalkingFloat"
    ELSE "none"

\* sendAfricasTalkingAirtime accepts 0..., 254..., +254...; anything else
\* reaches the statement that reads the undeclared name transactionId.
AtPhoneFormatOk(phoneNumber) ==
    \/ StartsWith(phoneNumber, <<"0">>)
    \/ StartsWith(phoneNumber, <<"2","5","4">>)
    \/ StartsWith(phoneNumber, <<"+","2","5","4">>)

\* ------------------------------------------------------- request inputs
SafLocal == <<"0","7","1","2","3","4","5","6","7","8">>
SafIntl == <<"+","2","5","4","1","1","0","3","4","5","6","7","8">>
AirtelLocal == <<"0","7","3","3","1","2","3","4","5","6">>
TelkomPadded == <<" ","0","7","7","1","1","2","3","4","5","6">>
Malformed == <<"0","7","1","2","3","4">>
\* the destination numbers the handlers are run with
Phones == {SafLocal, AirtelLocal, TelkomPadded, Malformed}

\* parseFloat(TransAmount)
Amounts == {Num(5000), NaN}
\* balance documents as the operator's dashboard leaves them
PoolNames == {"safaricomFloat", "africasTalkingFloat"}
Absent == [exists |-> FALSE, balance |-> Undefined]
Doc(b) == [exists |-> TRUE, balance |-> b]
InitSafaricomFloat == {Doc(Num(100000)), Doc(Num(2000)), Absent}
InitAfricasTalkingFloat == {Doc(Num(100000))}
\* "New balance is Ksh. <d+.dd>" as parsed from the dealer API's reply
ReportedBalances == {Num(94000)}

\* ------------------------------------------------------------------ state
VARIABLES
    transactions,   \* 'transactions' collection: TransID -> document
    sales,          \* 'sales' collection: sale id -> document
    errors,         \* 'errors' collection (append only)
    floats,         \* Saf_float/current and AT_Float/current
    floatTime,      \* the update time of each pool document, as a version
    hs,             \* the request handlers: position and local variables
    faults,         \* store operations that were rejected so far
    lg,             \* the float ledger on its own: pool documents and calls in flight
    tk,             \* the dealer token cache: cache, clock and calls in flight
    vd,             \* the /c2b-validation requests
    cl,             \* the carrier classifier on its own: one number and what it resolves to
    pu,             \* /api/process-airtime-purchase: variant, pool documents and requests
    exitPending     \* an unhandled rejection scheduled process.exit(1)

vars == <<transactions, sales, errors, floats, floatTime, hs, faults, exitPending, lg, tk, vd, cl, pu>>
mainVars == <<transactions, sales, errors, floats, floatTime, hs, faults, exitPending>>

NoTx == [exists |-> FALSE, status |-> "none", fulfillmentStatus |-> "none",
         linkedSaleId |-> 0, amountReceived |-> Undefined, billRefNumber |-> <<>>,
         createdAt |-> 0]
NoSale == [exists |-> FALSE, relatedTransactionId |-> "none", amount |-> Undefined,
           carrier |-> "none", status |-> "none"]
NoResult == [status |-> "none", newSafaricomFloatBalance |-> Undefined, error |-> "undef"]
NoResponse == [ResultCode |-> 0 - 1, ResultDesc |-> "none"]
\* an acknowledgment that rejects a payment it could not fulfil
Ack_RejectUnfulfilled(desc) ==
    [ResultCode |-> IF desc = "UNSUPPORTED_CARRIER" THEN 1 ELSE 0, ResultDesc |-> desc]

Ack(desc) == [ResultCode |-> 0, ResultDesc |-> desc]

IdleHandler ==
    [pc |-> "idle", tx |-> "none", phone |-> <<>>, amount |-> Undefined,
     targetCarrier |-> "none", floatName |-> "none", saleId |-> 0,
     floatDebited |-> FALSE, floatUpdateResult |-> "none", status |-> "none",
     result |-> NoResult, saleErrorMessage |-> "null",
     resp |-> NoResponse, resCalls |-> 0, escaped |-> FALSE,
     \* the ledger transaction in flight: the version it read, what it staged
     snapTime |-> 0, staged |-> Absent,
     \* history: step 1 wrote the record, the catch block ran, the reversal
     \* credit committed, a provider was called, the request arrived after
     \* an earlier one for the same id had finished
     recorded |-> FALSE, caught |-> FALSE, credited |-> FALSE, called |-> FALSE,
     resubmission |-> FALSE]

\* The ledger taken on its own: callers of updateCarrierFloatBalance, each
\* with at most one call in flight.
Callers == {1, 2}
NoCall == [pc |-> "idle", name |-> "", amount |-> Num(0), snapTime |-> 0,
           attempts |-> 0, staged |-> Absent, newBalance |-> Undefined, reason |-> ""]

\* the ledger's state over the pool documents fl, before any call
LedgerState(fl) ==
    [pools |-> fl,                                \* the pool documents (exists, balance)
     lastUpdated |-> [p \in PoolNames |-> 0],      \* their lastUpdated field
     updateTime |-> [p \in PoolNames |-> 0],       \* the store's version of each document
     clock |-> 0,
     start |-> fl,                                \* the documents before the first call
     calls |-> [c \in Callers |-> NoCall],
     started |-> 0,
     failed |-> 0,                                \* transactions the store failed
     hist |-> <<>>]                               \* the calls that ended, in the order they ended

LedgerIdle == LedgerState([p \in PoolNames |-> Absent])

\* The token cache taken on its own: callers of getCachedAirtimeToken.
\* A token is a positive number; NoToken stands for null and undefined.
TokenCallers == {1, 2}
NoToken == 0
NoTokenCall == [pc |-> "idle", now |-> 0, token |-> NoToken, fromCache |-> FALSE]

TokenIdle ==
    [cachedAirtimeToken |-> NoToken,      \* let cachedAirtimeToken = null
     tokenExpiryTimestamp |-> 0,          \* let tokenExpiryTimestamp = 0
     clock |-> 0,                         \* Date.now(), counted from the process start
     ticks |-> 0,
     issued |-> 0,                        \* tokens the endpoint has issued
     started |-> 0,
     calls |-> [c \in TokenCallers |-> NoTokenCall]]

\* tokenExpiryTimestamp = now + 3599 * 1000
TokenLifetimeMs == 3599 * 1000
\* the endpoint's answers: a token, a reply without access_token, an error
Answers == {"token", "noToken", "error"}

\* a cache check that still serves the token at the instant it expires
UseCached_Inclusive(cached, now, expiry) == cached # NoToken /\ now <= expiry

\* cachedAirtimeToken && now < tokenExpiryTimestamp
UseCached(cached, now, expiry) == cached # NoToken /\ now < expiry

\* getCachedAirtimeToken() up to its await, called by c on the cache t: the
\* cached token is returned, or the request to the token endpoint is sent
TokenCalled(t, c) ==
    LET now == t.clock
    IN IF UseCached(t.cachedAirtimeToken, now, t.tokenExpiryTimestamp)
       THEN [t EXCEPT !.calls[c] = [pc |-> "returned", now |-> now,
                                    token |-> t.cachedAirtimeToken, fromCache |-> TRUE]]
       ELSE [t EXCEPT !.calls[c] = [pc |-> "fetching", now |-> now,
                                    token |-> NoToken, fromCache |-> FALSE]]

\* getCachedAirtimeToken() after its await: the endpoint has answered c
TokenFetched(t, c, answer) ==
    LET call == t.calls[c]
    IN CASE answer = "token" ->
              [t EXCEPT !.issued = @ + 1,
                        !.cachedAirtimeToken = t.issued + 1,
                        !.tokenExpiryTimestamp = call.now + TokenLifetimeMs,
                        !.calls[c] = [call EXCEPT !.pc = "returned", !.token = t.issued + 1]]
         [] answer = "noToken" ->
              [t EXCEPT !.cachedAirtimeToken = NoToken,
                        !.tokenExpiryTimestamp = call.now + TokenLifetimeMs,
                        !.calls[c] = [call EXCEPT !.pc = "returned"]]
         [] answer = "error" ->
              [t EXCEPT !.calls[c] = [call EXCEPT !.pc = "raised"]]

\* /c2b-validation requests; TransAmount is a string (a sequence of characters)
Validators == {1, 2}
NoValidation == [pc |-> "idle", TransAmount |-> <<>>, amount |-> Undefined, resp |-> NoResponse]
ValidationIdle == [v \in Validators |-> NoValidation]

\* the classifier before it is given a number
ClassifierIdle == [pc |-> "input", phoneNumber |-> <<>>, prefix |-> 0 - 1,
                   targetCarrier |-> "none", floatName |-> "none"]

\* The float deduction endpoint taken on its own: the variant of the handler
\* that is deployed, the two pool documents with their update times, and
\* the requests.
Requesters == {1, 2}
FloatCollections == {"Saf_float", "AT_Float"}
NoBody == [amount |-> Undefined, status |-> <<>>, telco |-> "", transactionId |-> ""]
NoPurchase ==
    [pc |-> "idle", body |-> NoBody, floatCollectionId |-> "null", found |-> Absent,
     snapTime |-> 0, newBalance |-> Undefined, code |-> 0, committed |-> FALSE,
     before |-> Undefined, repeat |-> FALSE]
PurchaseState(variant, pools) ==
    [variant |-> variant,
     pools |-> [c \in FloatCollections |-> [doc |-> pools[c], updateTime |-> 0]],
     reqs |-> [r \in Requesters |-> NoPurchase],
     failed |-> 0]
PurchaseIdle == PurchaseState("server.js", [c \in FloatCollections |-> Absent])

Init ==
    /\ transactions = [t \in TxIds |-> NoTx]
    /\ sales = [i \in Handlers |-> NoSale]
    /\ errors = {}
    /\ \E sf \in InitSafaricomFloat, af \in InitAfricasTalkingFloat :
          floats = [p \in PoolNames |-> IF p = "safaricomFloat" THEN sf ELSE af]
    /\ floatTime = [p \in PoolNames |-> 0]
    /\ hs = [h \in Handlers |-> IdleHandler]
    /\ faults = 0
    /\ exitPending = FALSE
    /\ lg = LedgerIdle
    /\ tk = TokenIdle
    /\ vd = ValidationIdle
    /\ cl = ClassifierIdle
    /\ pu = PurchaseIdle

\* --------------------------------------------------------- float ledger
\* a ledger that writes the new balance before it checks it
updateCarrierFloatBalance_WriteFirst(fl, carrierLogicalName, amount) ==
    IF carrierLogicalName \notin PoolNames
    THEN [success |-> FALSE, floats |-> fl, reason |-> "INVALID_NAME"]
    ELSE LET snap == fl[carrierLogicalName]
             currentFloat == IF snap.exists THEN parseFloatOf(snap.balance) ELSE Num(0)
             newFloat == JsAdd(currentFloat, amount)
             written == [fl EXCEPT ![carrierLogicalName] = Doc(newFloat)]
         IN IF snap.exists /\ IsNaN(currentFloat)
            THEN [success |-> FALSE, floats |-> fl, reason |-> "INVALID_BALANCE"]
            ELSE IF JsLtZero(newFloat)
            THEN [success |-> FALSE, floats |-> written, reason |-> "INSUFFICIENT"]
            ELSE [success |-> TRUE, floats |-> written, reason |-> "OK"]

\* a ledger that does not create a missing pool document
updateCarrierFloatBalance_NoBootstrap(fl, carrierLogicalName, amount) ==
    IF carrierLogicalName \notin PoolNames
    THEN [success |-> FALSE, floats |-> fl, reason |-> "INVALID_NAME"]
    ELSE LET snap == fl[carrierLogicalName]
             currentFloat == parseFloatOf(snap.balance)
             newFloat == JsAdd(currentFloat, amount)
         IN IF ~snap.exists
            THEN [success |-> FALSE, floats |-> fl, reason |-> "NOT_FOUND"]
            ELSE IF IsNaN(currentFloat)
            THEN [success |-> FALSE, floats |-> fl, reason |-> "INVALID_BALANCE"]
            ELSE IF JsLtZero(newFloat)
            THEN [success |-> FALSE, floats |-> fl, reason |-> "INSUFFICIENT"]
            ELSE [success |-> TRUE,
                  floats |-> [fl EXCEPT ![carrierLogicalName] = Doc(newFloat)],
                  reason |-> "OK"]

\* updateCarrierFloatBalance(carrierLogicalName, amount): one Firestore
\* transaction. The stored balance is read through parseFloat, so a balance
\* kept as text counts as the number it starts with. The result is the
\* outcome and the collection afterwards.
updateCarrierFloatBalance(fl, carrierLogicalName, amount) ==
    IF carrierLogicalName \notin PoolNames
    THEN [success |-> FALSE, floats |-> fl, reason |-> "INVALID_NAME"]
    ELSE LET snap == fl[carrierLogicalName]
             currentFloat == IF snap.exists THEN parseFloatOf(snap.balance) ELSE Num(0)
             newFloat == JsAdd(currentFloat, amount)
         IN IF snap.exists /\ IsNaN(currentFloat)
            THEN [success |-> FALSE, floats |-> fl, reason |-> "INVALID_BALANCE"]
            ELSE IF JsLtZero(newFloat)
            THEN [success |-> FALSE, floats |-> fl, reason |-> "INSUFFICIENT"]
            ELSE [success |-> TRUE,
                  floats |-> [fl EXCEPT ![carrierLogicalName] = Doc(newFloat)],
                  reason |-> "OK"]

\* a commit that does not look at the document's version
CommitValid_Always(snapTime, updateTime) == TRUE

\* the commit of a transaction is accepted when the document it read has not
\* been written since
CommitValid(snapTime, updateTime) == snapTime = updateTime

\* ----------------------------------------------------- handler plumbing
ErrorRecord(type, subType, s, h) ==
    [type |-> type, subType |-> subType, transactionId |-> s.tx, by |-> h]

\* a store operation is rejected (network, quota, contention)
Fault == faults < MaxFaults /\ faults' = faults + 1
NoFault == faults' = faults

\* handler h moves to s
Step(h, s) ==
    /\ hs' = [hs EXCEPT ![h] = s]
    /\ exitPending' = (exitPending \/ s.escaped)
    /\ UNCHANGED <<lg, vd, cl, pu>>

\* handler h moves to s and the token cache is not touched
Commit(h, s) == Step(h, s) /\ UNCHANGED tk

\* throw inside the try block: control moves to the catch block
Throw(s) == [s EXCEPT !.pc = "catchAddErr", !.caught = TRUE]

\* a finally block that sends nothing
Finally_NoResponse(s) == [s EXCEPT !.pc = "done"]

\* the finally block, reached by falling out of try or catch
Finally(s) ==
    IF s.resp = NoResponse
    THEN [s EXCEPT !.pc = "done", !.resp = Ack("RECEIVED"), !.resCalls = @ + 1]
    ELSE [s EXCEPT !.pc = "done", !.resCalls = @ + 1, !.escaped = TRUE]

\* return res.json(...) inside try: the finally block then calls res.json
\* again, which throws ERR_HTTP_HEADERS_SENT out of the handler
EarlyReturn(s, desc) ==
    Finally([s EXCEPT !.resp = Ack(desc), !.resCalls = @ + 1])

\* an exception leaves the catch block: finally runs, the promise rejects
EscapeFromCatch(s) == [Finally(s) EXCEPT !.escaped = TRUE]

\* ------------------------------------------- app.post('/c2b-confirmation')
\* Handlers and transaction ids are interchangeable: requests take the
\* handlers in order, and an id is either one already seen or the next
\* unseen one.
UsedTxIds == {hs[g].tx : g \in Handlers} \ {"none"}
FreshOrUsed == UsedTxIds \cup (IF "T1" \notin UsedTxIds THEN {"T1"} ELSE {"T2"})

\* const now = new Date() in the prologue: requests arrive one after the
\* other, request h at instant h
Now(h) == h

\* A confirmation callback arrives: the synchronous prologue of the handler.
Receive(h) ==
    /\ hs[h].pc = "idle"
    /\ \A g \in Handlers : g < h => hs[g].pc # "idle"
    /\ \E tx \in FreshOrUsed, phone \in Phones, amount \in Amounts :
          Commit(h, [hs[h] EXCEPT !.pc = "getTx", !.tx = tx, !.phone = phone,
                                  !.amount = amount,
                                  !.resubmission = \E g \in Handlers :
                                      hs[g].tx = tx /\ hs[g].pc = "done" /\ hs[g].recorded])
    /\ UNCHANGED <<transactions, sales, errors, floats, floatTime, faults>>

\* a gate that lets every confirmation through
IsDuplicate_Never(existingTxDoc) == FALSE

\* if (existingTxDoc.exists): the idempotency gate
IsDuplicate(existingTxDoc) == existingTxDoc.exists

\* 1a. await transactionsCollection.doc(transactionId).get()
GetTx(h) ==
    LET s == hs[h]
    IN /\ s.pc = "getTx"
       /\ \/ /\ NoFault
             /\ IF IsDuplicate(transactions[s.tx])
                THEN Commit(h, EarlyReturn(s, "DUPLICATE"))
                ELSE Commit(h, [s EXCEPT !.pc = "setTx"])
          \/ /\ Fault
             /\ Commit(h, Throw(s))
       /\ UNCHANGED <<transactions, sales, errors, floats, floatTime>>

\* 1b. await transactionsCollection.doc(transactionId).set({...}), then
\* 2. detectCarrier and the switch that picks the float logical name
SetTx(h) ==
    LET s == hs[h]
        targetCarrier == detectCarrier(s.phone)
        name == FloatLogicalName(targetCarrier)
    IN /\ s.pc = "setTx"
       /\ \/ /\ NoFault
             /\ transactions' = [transactions EXCEPT ![s.tx] =
                    [exists |-> TRUE, status |-> "RECEIVED_PENDING_SALE",
                     fulfillmentStatus |-> "none", linkedSaleId |-> 0,
                     amountReceived |-> s.amount, billRefNumber |-> s.phone,
                     createdAt |-> Now(h)]]
             /\ Commit(h, [s EXCEPT !.recorded = TRUE, !.targetCarrier = targetCarrier,
                                    !.floatName = IF targetCarrier = "Unknown" THEN "none" ELSE name,
                                    !.pc = IF targetCarrier = "Unknown" THEN "unknownAddErr"
                                           ELSE IF name = "none" THEN "noMapAddErr"
                                           ELSE "debit"])
          \/ /\ Fault
             /\ Commit(h, Throw(s))
             /\ UNCHANGED transactions
       /\ UNCHANGED <<sales, errors, floats, floatTime>>

\* unknown carrier: await errorsCollection.add({... UNKNOWN_CARRIER ...})
UnknownAddErr(h) ==
    LET s == hs[h]
    IN /\ s.pc = "unknownAddErr"
       /\ \/ /\ NoFault
             /\ errors' = errors \cup {ErrorRecord("AIRTIME_SALE_ERROR", "UNKNOWN_CARRIER", s, h)}
             /\ Commit(h, [s EXCEPT !.pc = "unknownUpdTx"])
          \/ /\ Fault
             /\ Commit(h, Throw(s))
             /\ UNCHANGED errors
       /\ UNCHANGED <<transactions, sales, floats, floatTime>>

\* unknown carrier: await transactions.update(...); return res.json(...)
UnknownUpdTx(h) ==
    LET s == hs[h]
    IN /\ s.pc = "unknownUpdTx"
       /\ \/ /\ NoFault
             /\ transactions' = [transactions EXCEPT ![s.tx].status = "RECEIVED_FULFILLMENT_FAILED",
                                                     ![s.tx].fulfillmentStatus = "FAILED_UNKNOWN_CARRIER"]
             /\ Commit(h, EarlyReturn(s, "UNSUPPORTED_CARRIER"))
          \/ /\ Fault
             /\ Commit(h, Throw(s))
             /\ UNCHANGED transactions
       /\ UNCHANGED <<sales, errors, floats, floatTime>>

\* 3. floatUpdateResult = await updateCarrierFloatBalance(name, -amount), up
\* to the end of the update function: the transaction reads the pool
\* document (await t.get) and the function runs on that snapshot. It throws,
\* which the try/catch of the handler turns into FLOAT_DEBIT_FAILED, or it
\* stages its write for the commit.
Debit(h) ==
    LET s == hs[h]
        r == updateCarrierFloatBalance(floats, s.floatName, JsNeg(s.amount))
        failed == [s EXCEPT !.floatUpdateResult = "FLOAT_DEBIT_FAILED", !.pc = "floatAddErr"]
    IN /\ s.pc = "debit"
       /\ \/ /\ NoFault
             /\ floats' = IF r.success THEN floats ELSE r.floats
             /\ IF r.success
                THEN Commit(h, [s EXCEPT !.snapTime = floatTime[s.floatName],
                                         !.staged = r.floats[s.floatName],
                                         !.pc = "debitCommit"])
                ELSE Commit(h, failed)
          \/ /\ Fault
             /\ Commit(h, failed)
             /\ UNCHANGED floats
       /\ UNCHANGED <<transactions, sales, errors, floatTime>>

\* the commit of the debit: accepted when the pool document has not been
\* written since it was read, and then salesCollection.doc() and the locals;
\* refused otherwise, and the transaction runs the update function again
DebitCommit(h) ==
    LET s == hs[h]
        done == [s EXCEPT !.snapTime = 0, !.staged = Absent]
        failed == [done EXCEPT !.floatUpdateResult = "FLOAT_DEBIT_FAILED", !.pc = "floatAddErr"]
    IN /\ s.pc = "debitCommit"
       /\ \/ /\ NoFault
             /\ IF CommitValid(s.snapTime, floatTime[s.floatName])
                THEN /\ floats' = [floats EXCEPT ![s.floatName] = s.staged]
                     /\ floatTime' = [floatTime EXCEPT ![s.floatName] = @ + 1]
                     /\ Commit(h, [done EXCEPT !.floatDebited = TRUE,
                                               !.floatUpdateResult = "success",
                                               !.saleId = h,
                                               !.status = "FAILED", !.pc = "saleSet"])
                ELSE /\ Commit(h, [done EXCEPT !.pc = "debit"])
                     /\ UNCHANGED <<floats, floatTime>>
          \/ /\ Fault
             /\ Commit(h, failed)
             /\ UNCHANGED <<floats, floatTime>>
       /\ UNCHANGED <<transactions, sales, errors>>

\* debit failed: await errorsCollection.add({... FLOAT_DEBIT_FAILED ...})
FloatAddErr(h) ==
    LET s == hs[h]
    IN /\ s.pc = "floatAddErr"
       /\ \/ /\ NoFault
             /\ errors' = errors \cup {ErrorRecord("AIRTIME_SALE_ERROR", "FLOAT_DEBIT_FAILED", s, h)}
             /\ Commit(h, [s EXCEPT !.pc = "floatUpdTx"])
          \/ /\ Fault
             /\ Commit(h, Throw(s))
             /\ UNCHANGED errors
       /\ UNCHANGED <<transactions, sales, floats, floatTime>>

\* debit failed: await transactions.update(...); return res.json(...)
FloatUpdTx(h) ==
    LET s == hs[h]
    IN /\ s.pc = "floatUpdTx"
       /\ \/ /\ NoFault
             /\ transactions' = [transactions EXCEPT ![s.tx].status = "RECEIVED_FLOAT_ISSUE",
                                                     ![s.tx].fulfillmentStatus = "FAILED_INSUFFICIENT_FLOAT"]
             /\ Commit(h, EarlyReturn(s, "INSUFFICIENT_FLOAT"))
          \/ /\ Fault
             /\ Commit(h, Throw(s))
             /\ UNCHANGED transactions
       /\ UNCHANGED <<sales, errors, floats, floatTime>>

\* What follows the sale write without an await. sendSafaricomAirtime first
\* calls getCachedAirtimeToken, which answers from the cache (the dealer API
\* is posted to next) or posts to the token endpoint and awaits its answer.
EnterDispatch(h, s) ==
    LET t == TokenCalled(tk, h)
    IN IF s.targetCarrier = "Safaricom" /\ t.calls[h].pc = "fetching"
       THEN /\ tk' = t
            /\ Step(h, [s EXCEPT !.pc = "tokenPost"])
       ELSE Commit(h, [s EXCEPT !.pc = "dispatch"])

\* a handler that dispatches before it has written the sale
SaleSet_Skipped(h) ==
    /\ hs[h].pc = "saleSet"
    /\ EnterDispatch(h, hs[h])
    /\ UNCHANGED <<transactions, sales, errors, floats, floatTime, faults>>

\* await saleRef.set({... status: 'PENDING_DISPATCH' ...})
SaleSet(h) ==
    LET s == hs[h]
    IN /\ s.pc = "saleSet"
       /\ \/ /\ NoFault
             /\ sales' = [sales EXCEPT ![s.saleId] =
                    [exists |-> TRUE, relatedTransactionId |-> s.tx, amount |-> s.amount,
                     carrier |-> s.targetCarrier, status |-> "PENDING_DISPATCH"]]
             /\ EnterDispatch(h, s)
          \/ /\ Fault
             /\ Commit(h, Throw(s))
             /\ UNCHANGED sales
       /\ UNCHANGED <<transactions, errors, floats, floatTime>>

\* sendSafaricomAirtime's catch: {status: 'FAILED', message, error}, where
\* error is the response body or the error's message
SafaricomFailure ==
    [status |-> "FAILED", newSafaricomFloatBalance |-> Undefined, error |-> "def"]

\* what sendSafaricomAirtime returns once it holds a token: FAILED without an
\* error field when MPESA_AIRTIME_URL, DEALER_SENDER_MSISDN or
\* DEALER_SERVICE_PIN is not set (nothing is posted then); SUCCESS whenever
\* the post to the dealer API resolves (balance parsed from responseDesc, or
\* null); FAILED from its catch
SafaricomResults ==
    {[status |-> "FAILED", newSafaricomFloatBalance |-> Undefined, error |-> "undef"]}
    \cup {[status |-> "SUCCESS", newSafaricomFloatBalance |-> b, error |-> "undef"] :
             b \in ReportedBalances \cup {Null}}
    \cup {SafaricomFailure}

\* what sendAfricasTalkingAirtime returns, never with a newSafaricomFloatBalance
\* field: FAILED without an error field when AT_API_KEY or AT_USERNAME is not
\* set (nothing is sent then); SUCCESS; FAILED with the provider's reply as
\* error, which is undefined when AIRTIME.send resolved to undefined; FAILED
\* with the error's message from its catch
AfricasTalkingResults ==
    {[status |-> "SUCCESS", newSafaricomFloatBalance |-> Undefined, error |-> "undef"],
     [status |-> "FAILED", newSafaricomFloatBalance |-> Undefined, error |-> "undef"],
     [status |-> "FAILED", newSafaricomFloatBalance |-> Undefined, error |-> "def"]}

\* a handler that stores the provider's own status word
AfterDispatch_ProviderStatus(s, r) ==
    LET t == [s EXCEPT !.result = r, !.called = TRUE, !.status = r.status]
    IN IF r.newSafaricomFloatBalance # Null
       THEN [t EXCEPT !.pc = "reconcile"]
       ELSE [t EXCEPT !.saleErrorMessage = r.error, !.pc = "apiFailAddErr"]

\* the code between the provider's answer and the next await:
\* if (status === 'SUCCESS') {...}  if (newSafaricomFloatBalance !== null) {...} else {...}
AfterDispatch(s, r) ==
    LET t == [s EXCEPT !.result = r, !.called = TRUE,
                       !.status = IF r.status = "SUCCESS" THEN "COMPLETED" ELSE @]
    IN IF r.newSafaricomFloatBalance # Null
       THEN [t EXCEPT !.pc = "reconcile"]
       ELSE [t EXCEPT !.saleErrorMessage = r.error, !.pc = "apiFailAddErr"]

\* 4a. sendSafaricomAirtime: await getCachedAirtimeToken() with a cold cache.
\* The token endpoint answers: a token or a reply without access_token is
\* cached and the dealer API is posted to next; an error is rethrown into
\* sendSafaricomAirtime's catch, which returns FAILED without posting. The
\* post carries no timeout: without an answer the await never resumes.
TokenPost(h) ==
    LET s == hs[h]
    IN /\ s.pc = "tokenPost"
       /\ \/ \E answer \in Answers :
                LET t == TokenFetched(tk, h, answer)
                IN /\ tk' = [t EXCEPT !.calls[h] = NoTokenCall]
                   /\ IF t.calls[h].pc = "raised"
                      THEN Step(h, AfterDispatch(s, SafaricomFailure))
                      ELSE Step(h, [s EXCEPT !.pc = "dispatch"])
          \/ Commit(h, [s EXCEPT !.called = TRUE, !.pc = "awaitProvider"])
       /\ UNCHANGED <<transactions, sales, errors, floats, floatTime, faults>>

\* time passes until the cached token has expired
TokenExpiry ==
    /\ UseCached(tk.cachedAirtimeToken, tk.clock, tk.tokenExpiryTimestamp)
    /\ tk' = [tk EXCEPT !.clock = tk.tokenExpiryTimestamp]
    /\ UNCHANGED <<mainVars, lg, vd, cl, pu>>

\* 4b. the provider call itself: sendSafaricomAirtime from generateServicePin
\* on, which holds no await but the post to the dealer API, or
\* sendAfricasTalkingAirtime.
\* The provider call carries no timeout (axios.post without `timeout`,
\* AIRTIME.send): when the provider never answers, the await never resumes.
Dispatch(h) ==
    LET s == hs[h]
        pending == [s EXCEPT !.called = TRUE, !.pc = "awaitProvider"]
    IN /\ s.pc = "dispatch"
       /\ IF s.targetCarrier = "Safaricom"
          THEN \/ \E r \in SafaricomResults : Commit(h, AfterDispatch(s, r))
               \/ Commit(h, pending)
          ELSE IF AtPhoneFormatOk(s.phone)
          THEN \/ \E r \in AfricasTalkingResults : Commit(h, AfterDispatch(s, r))
               \/ Commit(h, pending)
          ELSE Commit(h, Throw([s EXCEPT !.called = TRUE]))
       /\ UNCHANGED <<transactions, sales, errors, floats, floatTime, faults>>

\* a client that lets undefined fields through
HasUndefined_Ignored(isUndefined) == FALSE

\* a document write is rejected by the client when a field is undefined
HasUndefined(isUndefined) == RejectsUndefined /\ isUndefined

\* await safaricomFloatDocRef.update({balance: newSafaricomFloatBalance, ...})
Reconcile(h) ==
    LET s == hs[h]
        b == s.result.newSafaricomFloatBalance
        caught == [s EXCEPT !.pc = "reconcileAddErr"]
    IN /\ s.pc = "reconcile"
       /\ \/ /\ NoFault
             /\ IF HasUndefined(b = Undefined) \/ ~floats["safaricomFloat"].exists
                THEN /\ Commit(h, caught)
                     /\ UNCHANGED <<floats, floatTime>>
                ELSE /\ floats' = [floats EXCEPT !["safaricomFloat"].balance = b]
                     /\ floatTime' = [floatTime EXCEPT !["safaricomFloat"] = @ + 1]
                     /\ Commit(h, [s EXCEPT !.pc = "saleUpd"])
          \/ /\ Fault
             /\ Commit(h, caught)
             /\ UNCHANGED <<floats, floatTime>>
       /\ UNCHANGED <<transactions, sales, errors>>

\* await errorsCollection.add({... SAFARICOM_REPORTED_BALANCE_UPDATE_FAILED,
\*                             reportedBalance: newSafaricomFloatBalance ...})
ReconcileAddErr(h) ==
    LET s == hs[h]
        b == s.result.newSafaricomFloatBalance
    IN /\ s.pc = "reconcileAddErr"
       /\ \/ /\ NoFault
             /\ IF HasUndefined(b = Undefined)
                THEN /\ Commit(h, Throw(s))
                     /\ UNCHANGED errors
                ELSE /\ errors' = errors \cup {ErrorRecord("FLOAT_RECONCILIATION_WARNING",
                                        "SAFARICOM_REPORTED_BALANCE_UPDATE_FAILED", s, h)}
                     /\ Commit(h, [s EXCEPT !.pc = "saleUpd"])
          \/ /\ Fault
             /\ Commit(h, Throw(s))
             /\ UNCHANGED errors
       /\ UNCHANGED <<transactions, sales, floats, floatTime>>

\* else branch: await errorsCollection.add({... AIRTIME_API_FAIL_<CARRIER>,
\*              error: saleErrorMessage ...}); airtimeDispatchStatus = 'FAILED_DISPATCH_API'
ApiFailAddErr(h) ==
    LET s == hs[h]
    IN /\ s.pc = "apiFailAddErr"
       /\ \/ /\ NoFault
             /\ IF HasUndefined(s.saleErrorMessage = "undef")
                THEN /\ Commit(h, Throw(s))
                     /\ UNCHANGED errors
                ELSE /\ errors' = errors \cup {ErrorRecord("AIRTIME_SALE_ERROR", "AIRTIME_API_FAIL", s, h)}
                     /\ Commit(h, [s EXCEPT !.status = "FAILED_DISPATCH_API", !.pc = "reverse"])
          \/ /\ Fault
             /\ Commit(h, Throw(s))
             /\ UNCHANGED errors
       /\ UNCHANGED <<transactions, sales, floats, floatTime>>

\* reversal: await updateCarrierFloatBalance(name, amount) in its try/catch.
\* Reverse and ReverseAddErr follow the add of ApiFailAddErr, which the
\* client rejects on every path that reaches it (ReversalUnreachable), so
\* they are no disjuncts of Next.
Reverse(h) ==
    LET s == hs[h]
        r == updateCarrierFloatBalance(floats, s.floatName, s.amount)
        caught == [s EXCEPT !.pc = "reverseAddErr"]
    IN /\ s.pc = "reverse"
       /\ \/ /\ NoFault
             /\ floats' = IF r.success THEN floats ELSE r.floats
             /\ IF r.success
                THEN Commit(h, [s EXCEPT !.snapTime = floatTime[s.floatName],
                                         !.staged = r.floats[s.floatName],
                                         !.pc = "reverseCommit"])
                ELSE Commit(h, caught)
          \/ /\ Fault
             /\ Commit(h, caught)
             /\ UNCHANGED floats
       /\ UNCHANGED <<transactions, sales, errors, floatTime>>

\* the commit of the reversal credit, or the update function again
ReverseCommit(h) ==
    LET s == hs[h]
        done == [s EXCEPT !.snapTime = 0, !.staged = Absent]
    IN /\ s.pc = "reverseCommit"
       /\ \/ /\ NoFault
             /\ IF CommitValid(s.snapTime, floatTime[s.floatName])
                THEN /\ floats' = [floats EXCEPT ![s.floatName] = s.staged]
                     /\ floatTime' = [floatTime EXCEPT ![s.floatName] = @ + 1]
                     /\ Commit(h, [done EXCEPT !.credited = TRUE, !.pc = "saleUpd"])
                ELSE /\ Commit(h, [done EXCEPT !.pc = "reverse"])
                     /\ UNCHANGED <<floats, floatTime>>
          \/ /\ Fault
             /\ Commit(h, [done EXCEPT !.pc = "reverseAddErr"])
             /\ UNCHANGED <<floats, floatTime>>
       /\ UNCHANGED <<transactions, sales, errors>>

\* reversal failed: await errorsCollection.add({... FLOAT_REVERSAL_FAILED ...})
ReverseAddErr(h) ==
    LET s == hs[h]
    IN /\ s.pc = "reverseAddErr"
       /\ \/ /\ NoFault
             /\ errors' = errors \cup {ErrorRecord("FLOAT_RECONCILIATION_WARNING",
                                                   "FLOAT_REVERSAL_FAILED", s, h)}
             /\ Commit(h, [s EXCEPT !.pc = "saleUpd"])
          \/ /\ Fault
             /\ Commit(h, Throw(s))
             /\ UNCHANGED errors
       /\ UNCHANGED <<transactions, sales, floats, floatTime>>

\* 5. await saleRef.update({status: airtimeDispatchStatus, errorMessage: saleErrorMessage, ...})
SaleUpd(h) ==
    LET s == hs[h]
    IN /\ s.pc = "saleUpd"
       /\ \/ /\ NoFault
             /\ IF HasUndefined(s.saleErrorMessage = "undef") \/ ~sales[s.saleId].exists
                THEN /\ Commit(h, Throw(s))
                     /\ UNCHANGED sales
                ELSE /\ sales' = [sales EXCEPT ![s.saleId].status = s.status]
                     /\ Commit(h, [s EXCEPT !.pc = "txUpd"])
          \/ /\ Fault
             /\ Commit(h, Throw(s))
             /\ UNCHANGED sales
       /\ UNCHANGED <<transactions, errors, floats, floatTime>>

\* 6. await transactions.update({linkedSaleId, fulfillmentStatus, status}); finally
TxUpd(h) ==
    LET s == hs[h]
    IN /\ s.pc = "txUpd"
       /\ \/ /\ NoFault
             /\ transactions' = [transactions EXCEPT
                    ![s.tx].linkedSaleId = s.saleId,
                    ![s.tx].fulfillmentStatus = s.status,
                    ![s.tx].status = IF s.status = "COMPLETED" THEN "RECEIVED_FULFILLED"
                                     ELSE "RECEIVED_FULFILLMENT_FAILED"]
             /\ Commit(h, Finally(s))
          \/ /\ Fault
             /\ Commit(h, Throw(s))
             /\ UNCHANGED transactions
       /\ UNCHANGED <<sales, errors, floats, floatTime>>

\* where the catch block goes after its transaction update
AfterCatchUpdTx(s) ==
    IF s.saleId # 0 THEN [s EXCEPT !.pc = "catchUpdSale"]
    ELSE IF s.floatDebited /\ s.floatName # "none" THEN [s EXCEPT !.pc = "catchAddWarn"]
    ELSE Finally(s)

\* a catch block that ends without its reconciliation warning
AfterCatchUpdSale_NoWarning(s) == Finally(s)

\* where the catch block goes after its sale update
AfterCatchUpdSale(s) ==
    IF s.floatDebited /\ s.floatName # "none" THEN [s EXCEPT !.pc = "catchAddWarn"]
    ELSE Finally(s)

\* catch: await errorsCollection.add({type: 'C2B_PROCESSING_EXCEPTION', ...})
CatchAddErr(h) ==
    LET s == hs[h]
    IN /\ s.pc = "catchAddErr"
       /\ \/ /\ NoFault
             /\ errors' = errors \cup {ErrorRecord("C2B_PROCESSING_EXCEPTION", "none", s, h)}
             /\ Commit(h, [s EXCEPT !.pc = "catchUpdTx"])
          \/ /\ Fault
             /\ Commit(h, EscapeFromCatch(s))
             /\ UNCHANGED errors
       /\ UNCHANGED <<transactions, sales, floats, floatTime>>

\* catch: try { await transactions.update({status: 'RECEIVED_PROCESSING_ERROR', ...}) } catch {}
CatchUpdTx(h) ==
    LET s == hs[h]
    IN /\ s.pc = "catchUpdTx"
       /\ \/ /\ NoFault
             /\ IF transactions[s.tx].exists
                THEN transactions' = [transactions EXCEPT
                        ![s.tx].status = "RECEIVED_PROCESSING_ERROR",
                        ![s.tx].fulfillmentStatus = "FAILED_SERVER_ERROR"]
                ELSE UNCHANGED transactions
          \/ /\ Fault
             /\ UNCHANGED transactions
       /\ Commit(h, AfterCatchUpdTx(s))
       /\ UNCHANGED <<sales, errors, floats, floatTime>>

\* catch: if (saleId) try { await sales.doc(saleId).update({status: 'FAILED_SERVER_ERROR'}) } catch {}
CatchUpdSale(h) ==
    LET s == hs[h]
    IN /\ s.pc = "catchUpdSale"
       /\ \/ /\ NoFault
             /\ IF sales[s.saleId].exists
                THEN sales' = [sales EXCEPT ![s.saleId].status = "FAILED_SERVER_ERROR"]
                ELSE UNCHANGED sales
          \/ /\ Fault
             /\ UNCHANGED sales
       /\ Commit(h, AfterCatchUpdSale(s))
       /\ UNCHANGED <<transactions, errors, floats, floatTime>>

\* catch: if (floatDebitedSuccessfully && name) await errorsCollection.add({...
\*        FLOAT_DEBITED_BUT_DISPATCH_FAILED_EXCEPTION ...}); finally
CatchAddWarn(h) ==
    LET s == hs[h]
    IN /\ s.pc = "catchAddWarn"
       /\ \/ /\ NoFault
             /\ errors' = errors \cup {ErrorRecord("FLOAT_RECONCILIATION_WARNING",
                                "FLOAT_DEBITED_BUT_DISPATCH_FAILED_EXCEPTION", s, h)}
             /\ Commit(h, Finally(s))
          \/ /\ Fault
             /\ Commit(h, EscapeFromCatch(s))
             /\ UNCHANGED errors
       /\ UNCHANGED <<transactions, sales, floats, floatTime>>

\* process.on('unhandledRejection'): setTimeout(() => process.exit(1), 1000).
\* The requests still in flight die with the process and the token cache
\* with its module variables; the store keeps its state.
ProcessExit ==
    /\ exitPending
    /\ exitPending' = FALSE
    /\ hs' = [h \in Handlers |->
                IF hs[h].pc \in {"idle", "done", "killed"} THEN hs[h]
                ELSE [hs[h] EXCEPT !.pc = "killed"]]
    /\ tk' = TokenIdle
    /\ UNCHANGED <<transactions, sales, errors, floats, floatTime, faults, lg, vd, cl, pu>>

Next ==
    \/ \E h \in Handlers :
          \/ Receive(h) \/ GetTx(h) \/ SetTx(h)
          \/ UnknownAddErr(h) \/ UnknownUpdTx(h)
          \/ Debit(h) \/ DebitCommit(h) \/ FloatAddErr(h) \/ FloatUpdTx(h)
          \/ SaleSet(h) \/ TokenPost(h) \/ Dispatch(h)
          \/ Reconcile(h) \/ ReconcileAddErr(h)
          \/ ApiFailAddErr(h)
          \/ SaleUpd(h) \/ TxUpd(h)
          \/ CatchAddErr(h) \/ CatchUpdTx(h) \/ CatchUpdSale(h) \/ CatchAddWarn(h)
    \/ TokenExpiry
    \/ ProcessExit

Spec == Init /\ [][Next]_vars

\* a step of handler h
HandlerStep(h) ==
    \/ GetTx(h) \/ SetTx(h)
    \/ UnknownAddErr(h) \/ UnknownUpdTx(h)
    \/ Debit(h) \/ DebitCommit(h) \/ FloatAddErr(h) \/ FloatUpdTx(h)
    \/ SaleSet(h) \/ TokenPost(h) \/ Dispatch(h)
    \/ Reconcile(h) \/ ReconcileAddErr(h) \/ ApiFailAddErr(h)
    \/ SaleUpd(h) \/ TxUpd(h)
    \/ CatchAddErr(h) \/ CatchUpdTx(h) \/ CatchUpdSale(h) \/ CatchAddWarn(h)

\* ==================================================== the ledger on its own
\* updateCarrierFloatBalance called by concurrent callers. runTransaction runs
\* the update function on a snapshot (t.get), stages its writes (t.set,
\* t.update) and commits them only if the document was not written since the
\* snapshot; otherwise it runs the function again.
MaxLedgerCalls == 3
LedgerNames == {"safaricomFloat", "unknownFloat"}
\* whole amounts, and amounts in cents whose sums are no doubles
Deltas == {Num(5000), Num(0), Num(0 - 3000), NaN, Num(30), Num(0 - 10), Num(0 - 20)}
\* the pool as the dashboard may leave it: missing, a number, the same number
\* as text (plain, and behind a byte order mark), or NaN
InitLedgerPools ==
    {Absent, Doc(Num(2000)), Doc(Str(<<"2","0">>)), Doc(Str(<<"﻿","2","0">>)), Doc(NaN)}

InitLedger ==
    /\ transactions = [t \in TxIds |-> NoTx]
    /\ sales = [i \in Handlers |-> NoSale]
    /\ errors = {}
    /\ floats = [p \in PoolNames |-> Absent]
    /\ floatTime = [p \in PoolNames |-> 0]
    /\ hs = [h \in Handlers |-> IdleHandler]
    /\ faults = 0
    /\ exitPending = FALSE
    /\ tk = TokenIdle
    /\ vd = ValidationIdle
    /\ cl = ClassifierIdle
    /\ pu = PurchaseIdle
    /\ \E sf \in InitLedgerPools :
          lg = LedgerState([p \in PoolNames |-> IF p = "safaricomFloat" THEN sf ELSE Absent])

\* the call of caller c ends: it is appended to the history
EndCall(c, call) ==
    [name |-> call.name, amount |-> call.amount, ok |-> call.pc = "returned",
     reason |-> call.reason, newBalance |-> call.newBalance]

\* a caller calls updateCarrierFloatBalance(name, amount)
LedgerCall(c) ==
    /\ lg.calls[c].pc \in {"idle", "returned", "raised"}
    /\ lg.started < MaxLedgerCalls
    /\ \A d \in Callers : d < c => lg.calls[d].pc # "idle"
    /\ \E name \in LedgerNames, amount \in Deltas :
          \* an unknown name is refused before the amount is read: one amount
          /\ name \notin PoolNames => amount = Num(5000)
          /\ lg' = [lg EXCEPT !.started = @ + 1,
                              !.calls[c] = [NoCall EXCEPT !.pc = "run", !.name = name,
                                                          !.amount = amount]]
    /\ UNCHANGED <<mainVars, tk, vd, cl, pu>>

\* the update function runs on a snapshot: it throws, or it stages its writes
LedgerRun(c) ==
    LET call == lg.calls[c]
        r == updateCarrierFloatBalance(lg.pools, call.name, call.amount)
        raised == [call EXCEPT !.pc = "raised", !.reason = r.reason]
    IN /\ call.pc = "run"
       /\ IF ~r.success
          THEN lg' = [lg EXCEPT !.pools = r.floats, !.calls[c] = raised,
                                !.hist = Append(@, EndCall(c, raised))]
          ELSE lg' = [lg EXCEPT !.calls[c] =
                        [call EXCEPT !.pc = "commit",
                                     !.snapTime = lg.updateTime[call.name],
                                     !.staged = r.floats[call.name],
                                     !.newBalance = r.floats[call.name].balance]]
       /\ UNCHANGED <<mainVars, tk, vd, cl, pu>>

\* the staged writes are committed, or the function is run again
LedgerCommit(c) ==
    LET call == lg.calls[c]
        returned == [call EXCEPT !.pc = "returned", !.reason = "OK"]
    IN /\ call.pc = "commit"
       /\ IF CommitValid(call.snapTime, lg.updateTime[call.name])
          THEN lg' = [lg EXCEPT !.pools[call.name] = call.staged,
                                !.clock = @ + 1,
                                !.lastUpdated[call.name] = lg.clock + 1,
                                !.updateTime[call.name] = lg.clock + 1,
                                !.calls[c] = returned,
                                !.hist = Append(@, EndCall(c, returned))]
          ELSE lg' = [lg EXCEPT !.calls[c] =
                        [call EXCEPT !.pc = "run", !.attempts = @ + 1,
                                     !.staged = Absent, !.newBalance = Undefined]]
       /\ UNCHANGED <<mainVars, tk, vd, cl, pu>>

\* the store fails the transaction: runTransaction rejects, nothing is written
LedgerStoreFails(c) ==
    LET call == lg.calls[c]
        raised == [call EXCEPT !.pc = "raised", !.reason = "STORE",
                               !.staged = Absent, !.newBalance = Undefined]
    IN /\ call.pc \in {"run", "commit"}
       /\ lg.failed < MaxFaults
       /\ lg' = [lg EXCEPT !.failed = @ + 1, !.calls[c] = raised,
                           !.hist = Append(@, EndCall(c, raised))]
       /\ UNCHANGED <<mainVars, tk, vd, cl, pu>>

NextLedger ==
    \E c \in Callers :
        \/ LedgerCall(c) \/ LedgerRun(c) \/ LedgerCommit(c) \/ LedgerStoreFails(c)

SpecLedger == InitLedger /\ [][NextLedger]_vars

\* ================================================ the token cache on its own
\* getCachedAirtimeToken called by concurrent callers while time passes. The
\* function runs up to its await in one step and resumes when the token
\* endpoint has answered.
MaxTicks == 4
MaxTokenCalls == 3
TickSteps == {1000, 3598000}
InitToken ==
    /\ transactions = [t \in TxIds |-> NoTx]
    /\ sales = [i \in Handlers |-> NoSale]
    /\ errors = {}
    /\ floats = [p \in PoolNames |-> Absent]
    /\ floatTime = [p \in PoolNames |-> 0]
    /\ hs = [h \in Handlers |-> IdleHandler]
    /\ faults = 0
    /\ exitPending = FALSE
    /\ lg = LedgerIdle
    /\ tk = TokenIdle
    /\ vd = ValidationIdle
    /\ cl = ClassifierIdle
    /\ pu = PurchaseIdle

\* time passes
TokenTick ==
    /\ tk.ticks < MaxTicks
    /\ \E d \in TickSteps : tk' = [tk EXCEPT !.clock = @ + d, !.ticks = @ + 1]
    /\ UNCHANGED <<mainVars, lg, vd, cl, pu>>

\* a caller calls getCachedAirtimeToken(): the cached token, or the request
TokenCall(c) ==
    /\ tk.calls[c].pc \in {"idle", "returned", "raised"}
    /\ tk.started < MaxTokenCalls
    /\ \A d \in TokenCallers : d < c => tk.calls[d].pc # "idle"
    /\ tk' = [TokenCalled(tk, c) EXCEPT !.started = @ + 1]
    /\ UNCHANGED <<mainVars, lg, vd, cl, pu>>

\* the token endpoint answers the request of caller c
TokenResponse(c) ==
    /\ tk.calls[c].pc = "fetching"
    /\ \E answer \in Answers : tk' = TokenFetched(tk, c, answer)
       /\ UNCHANGED <<mainVars, lg, vd, cl, pu>>

NextToken ==
    \/ TokenTick
    \/ \E c \in TokenCallers : TokenCall(c) \/ TokenResponse(c)

SpecToken == InitToken /\ [][NextToken]_vars

\* ================================================= the classifier on its own
\* detectCarrier and the handler's carrier switch applied to one number.
Prefixes == 0..999
Subscriber == <<"1","2","3","4","5","6">>
LocalForm(n) == <<"0">> \o Prefix3(n) \o Subscriber
BareForm(n) == <<"2","5","4">> \o Prefix3(n) \o Subscriber
PlusForm(n) == <<"+","2","5","4">> \o Prefix3(n) \o Subscriber
Forms(n) == {LocalForm(n), BareForm(n), PlusForm(n)}
\* numbers that are not a subscriber number in one of the three forms
OddNumbers ==
    {<<>>,
     <<"0","7","1","2","3","4","5","6","7">>,
     <<"0","7","1","2","3","4","5","6","7","8","9">>,
     <<"1","7","1","2","3","4","5","6","7","8">>,
     <<"0","7","a","2","3","4","5","6","7","8">>,
     <<"0","7","1","2","a","b","c","6","7","8">>,
     <<"0","7","1","2","3","4","5","6","7","x">>,
     <<" ","0","7","1","2","3","4","5","6","7","8"," ">>,
     <<"\t">> \o SafLocal,
     SafLocal \o <<"\n">>,
     SafLocal \o <<"\r","\n">>,
     <<" ">> \o SafLocal \o <<"">>,
     <<"﻿">> \o SafLocal,
     AirtelLocal \o <<"﻿">>,
     <<"U+2028">> \o SafLocal \o <<"U+2029">>,
     <<"0","\t","7","1","2","3","4","5","6","7","8">>}

mainIdle ==
    /\ transactions = [t \in TxIds |-> NoTx]
    /\ sales = [i \in Handlers |-> NoSale]
    /\ errors = {}
    /\ floats = [p \in PoolNames |-> Absent]
    /\ floatTime = [p \in PoolNames |-> 0]
    /\ hs = [h \in Handlers |-> IdleHandler]
    /\ faults = 0
    /\ exitPending = FALSE

InitClassify ==
    /\ mainIdle
    /\ lg = LedgerIdle
    /\ tk = TokenIdle
    /\ vd = ValidationIdle
    /\ pu = PurchaseIdle
    /\ \/ \E n \in Prefixes : \E p \in Forms(n) :
             cl = [ClassifierIdle EXCEPT !.phoneNumber = p, !.prefix = n]
       \/ \E p \in OddNumbers : cl = [ClassifierIdle EXCEPT !.phoneNumber = p]

\* const targetCarrier = detectCarrier(topupNumber)
Classify ==
    /\ cl.pc = "input"
    /\ cl' = [cl EXCEPT !.pc = "classified", !.targetCarrier = detectCarrier(cl.phoneNumber)]
    /\ UNCHANGED <<mainVars, lg, tk, vd, pu>>

\* if (targetCarrier === 'Unknown') {...}  switch (targetCarrier) {...}
Resolve ==
    /\ cl.pc = "classified"
    /\ IF cl.targetCarrier = "Unknown"
       THEN cl' = [cl EXCEPT !.pc = "unknownCarrier"]
       ELSE LET name == FloatLogicalName(cl.targetCarrier)
            IN cl' = [cl EXCEPT !.floatName = name,
                                !.pc = IF name = "none" THEN "noFloatMapping" ELSE "resolved"]
    /\ UNCHANGED <<mainVars, lg, tk, vd, pu>>

NextClassify == Classify \/ Resolve

SpecClassify == InitClassify /\ [][NextClassify]_vars

\* ================================================== /c2b-validation on its own
\* const MIN_AMOUNT = 5.00
MIN_AMOUNT == 500

\* the TransAmount fields the requests carry; a missing field reads "undefined"
TransAmounts ==
    {<<"5","0">>, <<"5">>, <<"5",".","0","0">>, <<"4",".","9","9">>, <<"4">>, <<"0">>,
     <<"-","7">>, <<"a","b","c">>, <<>>, <<"5","a","b","c">>, <<" ","7">>,
     <<"\t","7">>, <<"\n","5">>, <<"\r","\n","4">>, <<"1","e","1">>, <<".","5">>,
     <<"﻿","7">>, <<" ","﻿","5",".","0","0">>, <<"U+2028","4">>,
     <<"u","n","d","e","f","i","n","e","d">>}

StoredPayment == [NoTx EXCEPT !.exists = TRUE, !.status = "RECEIVED_FULFILLED",
                              !.fulfillmentStatus = "COMPLETED", !.amountReceived = Num(5000)]

InitValidation ==
    /\ transactions = [t \in TxIds |-> IF t = "T1" THEN StoredPayment ELSE NoTx]
    /\ sales = [i \in Handlers |-> NoSale]
    /\ errors = {}
    /\ floats = [p \in PoolNames |-> Doc(Num(100000))]
    /\ floatTime = [p \in PoolNames |-> 0]
    /\ hs = [h \in Handlers |-> IdleHandler]
    /\ faults = 0
    /\ exitPending = FALSE
    /\ lg = LedgerIdle
    /\ tk = TokenIdle
    /\ vd = ValidationIdle
    /\ cl = ClassifierIdle
    /\ pu = PurchaseIdle

\* if (isNaN(amount) || amount < MIN_AMOUNT)
Rejects(amount) == IsNaN(amount) \/ amount.v < MIN_AMOUNT

\* the request arrives; an accepted amount is answered at once
ValidationReceive(v) ==
    /\ vd[v].pc = "idle"
    /\ \A w \in Validators : w < v => vd[w].pc # "idle"
    /\ \E TransAmount \in TransAmounts :
          LET amount == parseFloat(TransAmount)
              r == [NoValidation EXCEPT !.TransAmount = TransAmount, !.amount = amount]
          IN vd' = [vd EXCEPT ![v] =
                      IF Rejects(amount) THEN [r EXCEPT !.pc = "rejectAddErr"]
                      ELSE [r EXCEPT !.pc = "answered",
                                     !.resp = [ResultCode |-> 0, ResultDesc |-> "ACCEPTED"]]]
    /\ UNCHANGED <<mainVars, lg, tk, cl, pu>>

\* await errorsCollection.add({type: 'C2B_VALIDATION_REJECT', ...}); return res.json(...)
\* The handler has no try/catch: a rejected add leaves the request unanswered.
ValidationAddErr(v) ==
    /\ vd[v].pc = "rejectAddErr"
    /\ \/ /\ NoFault
          /\ errors' = errors \cup {[type |-> "C2B_VALIDATION_REJECT",
                                     subType |-> "INVALID_AMOUNT_TOO_LOW",
                                     transactionId |-> "none", by |-> v]}
          /\ vd' = [vd EXCEPT ![v].pc = "answered",
                              ![v].resp = [ResultCode |-> 1, ResultDesc |-> "REJECTED"]]
          /\ UNCHANGED exitPending
       \/ /\ Fault
          /\ vd' = [vd EXCEPT ![v].pc = "escaped"]
          /\ exitPending' = TRUE
          /\ UNCHANGED errors
    /\ UNCHANGED <<transactions, sales, floats, floatTime, hs, lg, tk, cl, pu>>

NextValidation == \E v \in Validators : ValidationReceive(v) \/ ValidationAddErr(v)

SpecValidation == InitValidation /\ [][NextValidation]_vars

\* ------------------------------- app.post('/api/process-airtime-purchase')
\* The endpoint exists in four variants: src/server.js and the three parts
\* of src/unnamed. A request body is parsed JSON: the amount is a number, a
\* string or missing; a missing string field and an empty one are both falsy
\* and are both written as the empty string.
Variants == {"server.js", "part_000", "part_001", "part_002"}
\* JavaScript: !x
Falsy(x) ==
    \/ x.t \in {"undef", "null", "nan"}
    \/ x.t = "num" /\ x.v = 0 /\ x.d = 0
    \/ x.t = "str" /\ x.v = <<>>

\* JavaScript: the numeric value that the operator - gives its operand
ToNumber(x) ==
    CASE x.t = "num" -> x
      [] x.t = "null" -> Num(0)
      [] x.t = "str" -> StringToNumber(x.v)
      [] OTHER -> NaN

\* JavaScript: a - b
JsSub(a, b) ==
    LET x == ToNumber(a)
        y == ToNumber(b)
    IN JsAdd(x, JsNeg(y))

\* String.prototype.toUpperCase on the letters a..z
LowerCase == <<"a","b","c","d","e","f","g","h","i","j","k","l","m",
               "n","o","p","q","r","s","t","u","v","w","x","y","z">>
UpperCase == <<"A","B","C","D","E","F","G","H","I","J","K","L","M",
               "N","O","P","Q","R","S","T","U","V","W","X","Y","Z">>
toUpperCase(str) ==
    [i \in 1..Len(str) |->
        IF \E k \in 1..26 : LowerCase[k] = str[i]
        THEN UpperCase[CHOOSE k \in 1..26 : LowerCase[k] = str[i]]
        ELSE str[i]]

SUCCESS == <<"S","U","C","C","E","S","S">>
COMPLETED == <<"C","O","M","P","L","E","T","E","D">>

\* function getFloatCollectionId(telco), the same in the four variants
getFloatCollectionId(telco) ==
    IF telco = "Safaricom" THEN "Saf_float"
    ELSE IF telco \in {"Airtel", "Telkom", "Africastalking"} THEN "AT_Float"
    ELSE "null"

\* if (typeof amount !== 'number' || amount <= 0 || !status || !telco || !transactionId)
InvalidPurchaseData(body) ==
    \/ body.amount.t \notin {"num", "nan"}
    \/ body.amount.t = "num" /\ body.amount.v <= 0
    \/ body.status = <<>> \/ body.telco = "" \/ body.transactionId = ""

\* part_002: if (!amount || !status || !telco || !transactionId)
InvalidPurchaseData_part_002(body) ==
    \/ Falsy(body.amount)
    \/ body.status = <<>> \/ body.telco = "" \/ body.transactionId = ""

\* status.toUpperCase() is 'COMPLETED' or 'SUCCESS'
IsSuccessStatus(status) == toUpperCase(status) \in {COMPLETED, SUCCESS}

\* part_001: status.toUpperCase() is 'SUCCESS'
IsSuccessStatus_part_001(status) == toUpperCase(status) = SUCCESS

\* the transaction callback: [threw, newBalance]
Deduct(doc, amount) ==
    IF ~doc.exists THEN [threw |-> TRUE, newBalance |-> Undefined]
    ELSE IF doc.balance.t \notin {"num", "nan"} THEN [threw |-> TRUE, newBalance |-> Undefined]
    ELSE LET newBalance == JsSub(doc.balance, amount)
         IN IF JsLtZero(newBalance) THEN [threw |-> TRUE, newBalance |-> Undefined]
            ELSE [threw |-> FALSE, newBalance |-> newBalance]

\* part_002: doc.data() of a missing document is undefined and reading its
\* balance throws; current = balance || 0
Deduct_part_002(doc, amount) ==
    IF ~doc.exists THEN [threw |-> TRUE, newBalance |-> Undefined]
    ELSE LET current == IF Falsy(doc.balance) THEN Num(0) ELSE doc.balance
             newBalance == JsSub(current, amount)
         IN IF JsLtZero(newBalance) THEN [threw |-> TRUE, newBalance |-> Undefined]
            ELSE [threw |-> FALSE, newBalance |-> newBalance]

\* the variant's own form of each step
Invalid(variant, body) ==
    IF variant = "part_002" THEN InvalidPurchaseData_part_002(body) ELSE InvalidPurchaseData(body)
NeedsDeduction(variant, status) ==
    IF variant = "part_001" THEN IsSuccessStatus_part_001(status) ELSE IsSuccessStatus(status)
Callback(variant, doc, amount) ==
    IF variant = "part_002" THEN Deduct_part_002(doc, amount) ELSE Deduct(doc, amount)

\* Request bodies: a well-formed purchase, and that purchase with one field
\* changed.
GoodBody == [amount |-> Num(3000), status |-> SUCCESS, telco |-> "Safaricom", transactionId |-> "P1"]
PurchaseAmounts ==
    {Num(3000), Num(13000), Num(0), Num(0 - 3000), Num(10), Str(<<"3","0">>), Str(<<"-","3","0">>),
     Str(<<" ","1",".","5","\n">>), Str(<<"0","x","1","0">>), Str(<<"﻿","3","0">>),
     Str(<<"a","b","c">>), Undefined}
PurchaseStatuses ==
    {SUCCESS, COMPLETED, <<"s","u","c","c","e","s","s">>, <<"F","A","I","L","E","D">>, <<>>}
PurchaseTelcos == {"Safaricom", "Airtel", "Faiba", ""}
PurchaseBodies ==
    {[GoodBody EXCEPT !.amount = a] : a \in PurchaseAmounts}
        \cup {[GoodBody EXCEPT !.status = st] : st \in PurchaseStatuses}
        \cup {[GoodBody EXCEPT !.telco = t] : t \in PurchaseTelcos}
        \cup {[GoodBody EXCEPT !.transactionId = ""]}
InitPurchasePools ==
    {Doc(Num(10000)), Doc(Num(30)), Absent, Doc(NaN), Doc(Str(<<"a","b","c">>)),
     Doc(Str(<<"1","0","0">>)),
     Doc(Str(<<"﻿","1","0","0">>))}

InitPurchase ==
    /\ mainIdle
    /\ lg = LedgerIdle
    /\ tk = TokenIdle
    /\ vd = ValidationIdle
    /\ cl = ClassifierIdle
    /\ \E variant \in Variants, saf \in InitPurchasePools :
          pu = PurchaseState(variant, [c \in FloatCollections |->
                                          IF c = "Saf_float" THEN saf ELSE Doc(Num(10000))])

Answer(r, q, code) ==
    /\ pu' = [pu EXCEPT !.reqs[r] = [q EXCEPT !.pc = "answered", !.code = code]]
    /\ UNCHANGED <<mainVars, lg, tk, vd, cl>>

\* A request arrives: the synchronous checks up to db.runTransaction.
PurchaseReceive(r) ==
    /\ pu.reqs[r].pc = "idle"
    /\ \A g \in Requesters : g < r => pu.reqs[g].pc # "idle"
    /\ \E body \in PurchaseBodies :
          LET floatCollectionId == getFloatCollectionId(body.telco)
              q == [pu.reqs[r] EXCEPT
                        !.body = body,
                        !.repeat = \E g \in Requesters :
                            /\ pu.reqs[g].pc = "answered" /\ pu.reqs[g].committed
                            /\ pu.reqs[g].body = body]
          IN IF Invalid(pu.variant, body) THEN Answer(r, q, 400)
             ELSE IF ~NeedsDeduction(pu.variant, body.status) THEN Answer(r, q, 200)
             ELSE IF floatCollectionId = "null" THEN Answer(r, q, 400)
             ELSE /\ pu' = [pu EXCEPT !.reqs[r] =
                                [q EXCEPT !.pc = "txn", !.floatCollectionId = floatCollectionId]]
                  /\ UNCHANGED <<mainVars, lg, tk, vd, cl>>

\* db.runTransaction: the callback reads the pool document and either throws
\* (answered 500 by the catch block) or buffers the update.
PurchaseGet(r) ==
    LET q == pu.reqs[r]
        pool == pu.pools[q.floatCollectionId]
        out == Callback(pu.variant, pool.doc, q.body.amount)
        seen == [q EXCEPT !.found = pool.doc, !.snapTime = pool.updateTime]
    IN /\ q.pc = "txn"
       /\ IF out.threw THEN Answer(r, seen, 500)
          ELSE /\ pu' = [pu EXCEPT !.reqs[r] =
                             [seen EXCEPT !.pc = "commit", !.newBalance = out.newBalance]]
               /\ UNCHANGED <<mainVars, lg, tk, vd, cl>>

\* the commit: applied when the document is as it was read, otherwise the
\* callback runs again
PurchaseCommit(r) ==
    LET q == pu.reqs[r]
        pool == pu.pools[q.floatCollectionId]
    IN /\ q.pc = "commit"
       /\ IF CommitValid(q.snapTime, pool.updateTime)
          THEN pu' = [pu EXCEPT
                        !.pools[q.floatCollectionId] =
                            [doc |-> Doc(q.newBalance), updateTime |-> pool.updateTime + 1],
                        !.reqs[r] = [q EXCEPT !.pc = "answered", !.code = 200,
                                              !.committed = TRUE, !.before = pool.doc.balance]]
          ELSE pu' = [pu EXCEPT !.reqs[r] = [q EXCEPT !.pc = "txn"]]
       /\ UNCHANGED <<mainVars, lg, tk, vd, cl>>

\* the store rejects the transaction: the catch block answers 500
PurchaseStoreFails(r) ==
    LET q == pu.reqs[r]
    IN /\ q.pc \in {"txn", "commit"}
       /\ pu.failed < MaxFaults
       /\ pu' = [pu EXCEPT !.reqs[r] = [q EXCEPT !.pc = "answered", !.code = 500],
                           !.failed = @ + 1]
       /\ UNCHANGED <<mainVars, lg, tk, vd, cl>>

NextPurchase ==
    \E r \in Requesters :
        PurchaseReceive(r) \/ PurchaseGet(r) \/ PurchaseCommit(r) \/ PurchaseStoreFails(r)

SpecPurchase == InitPurchase /\ [][NextPurchase]_vars

\* ================================================================ claims
\* The else branch of the dispatch handling is entered only with a result
\* that has no error field, so its first write is rejected and the reversal
\* that follows it never starts.
ReversalUnreachable ==
    \A h \in Handlers : hs[h].pc \notin {"reverse", "reverseAddErr"} /\ ~hs[h].credited

HandlersOf(t) == {h \in Handlers : hs[h].tx = t}
SalesOf(t) == {i \in Handlers : sales[i].exists /\ sales[i].relatedTransactionId = t}
Finished(h) == hs[h].pc = "done"
HasError(type, subType, h) == ErrorRecord(type, subType, hs[h], h) \in errors

\* C1: a confirmation submitted again after an earlier one for the same id
\* finished (and recorded the payment) is answered with the duplicate
\* acknowledgment, ResultCode 0; the id still has its one payment record and
\* at most one sale, and no step of the second handler changes a pool or a sale.
C1_SequentialIdempotence ==
    /\ [](\A h \in Handlers :
            (hs[h].resubmission /\ Finished(h) /\ ~hs[h].caught) =>
                /\ hs[h].resp = Ack("DUPLICATE")
                /\ hs[h].resp.ResultCode = 0
                /\ transactions[hs[h].tx].exists
                /\ Cardinality(SalesOf(hs[h].tx)) <= 1
                /\ ~hs[h].floatDebited /\ ~hs[h].credited /\ ~hs[h].called
                /\ ~sales[h].exists)
    /\ [][\A h \in Handlers :
            (hs[h].resubmission /\ hs'[h] # hs[h]) => (floats' = floats /\ sales' = sales)]_vars

C1_Witness ==
    \E h \in Handlers :
        /\ hs[h].resubmission /\ Finished(h) /\ hs[h].resp = Ack("DUPLICATE")
        /\ \E g \in Handlers : g # h /\ hs[g].tx = hs[h].tx /\ hs[g].floatDebited

\* C2: for each transaction id at most one handler passes the idempotency
\* gate, so the id causes at most one float debit, one sale and one dispatch.
C2_ConcurrentIdempotence ==
    \A t \in TxIds :
        /\ Cardinality({h \in HandlersOf(t) : hs[h].recorded}) <= 1
        /\ Cardinality({h \in HandlersOf(t) : hs[h].floatDebited}) <= 1
        /\ Cardinality(SalesOf(t)) <= 1
        /\ Cardinality({h \in HandlersOf(t) : hs[h].called}) <= 1

\* C3: the stored balance of every float pool is a number >= 0.
C3_BalanceNeverNegative ==
    \A p \in PoolNames :
        floats[p].exists => (floats[p].balance.t = "num" /\ ~JsLtZero(floats[p].balance))

\* C4: a finished confirmation whose debit succeeded and whose dispatch
\* returned FAILED has its sale FAILED_DISPATCH_API, a dispatch-failure error
\* record, and a credit-back that was attempted (committed, or recorded as failed).
C4_FailedDispatchIsReversed ==
    \A h \in Handlers :
        (Finished(h) /\ faults = 0 /\ hs[h].floatDebited /\ hs[h].result.status = "FAILED") =>
            /\ sales[h].status = "FAILED_DISPATCH_API"
            /\ HasError("AIRTIME_SALE_ERROR", "AIRTIME_API_FAIL", h)
            /\ (hs[h].credited \/ HasError("FLOAT_RECONCILIATION_WARNING", "FLOAT_REVERSAL_FAILED", h))

\* C5: a finished confirmation whose dispatch returned SUCCESS has its sale
\* COMPLETED and its payment RECEIVED_FULFILLED, with or without a reported
\* balance; without one there is no error record and no credit-back.
C5_SuccessIsCompleted ==
    \A h \in Handlers :
        (Finished(h) /\ faults = 0 /\ hs[h].result.status = "SUCCESS" /\ HandlersOf(hs[h].tx) = {h}) =>
            /\ sales[h].status = "COMPLETED"
            /\ transactions[hs[h].tx].status = "RECEIVED_FULFILLED"
            /\ (hs[h].result.newSafaricomFloatBalance \in {Null, Undefined}) =>
                  (~hs[h].credited /\ \A e \in errors : e.by # h)

\* C6: when the float debit fails, the debit leaves every pool as it was, and
\* the handler finishes with the payment RECEIVED_FLOAT_ISSUE, an error record,
\* no sale, no provider call and ResultCode 0, without touching a pool.
C6_FloatDebitFailure ==
    /\ [][\A h \in Handlers :
            (hs[h].pc \in {"debit", "debitCommit"}
                /\ hs'[h].floatUpdateResult = "FLOAT_DEBIT_FAILED") =>
                floats' = floats]_vars
    /\ [][\A h \in Handlers :
            (hs[h].floatUpdateResult = "FLOAT_DEBIT_FAILED" /\ hs'[h] # hs[h]) =>
                (floats' = floats /\ sales' = sales /\ ~hs'[h].called)]_vars
    /\ [][\A h \in Handlers :
            (hs[h].floatUpdateResult = "FLOAT_DEBIT_FAILED" /\ ~Finished(h)
                /\ hs'[h].pc = "done" /\ ~hs'[h].caught) =>
                /\ transactions'[hs[h].tx].status = "RECEIVED_FLOAT_ISSUE"
                /\ ErrorRecord("AIRTIME_SALE_ERROR", "FLOAT_DEBIT_FAILED", hs[h], h) \in errors'
                /\ ~sales'[h].exists
                /\ hs'[h].resp.ResultCode = 0]_vars

C6_Witness ==
    \E h \in Handlers :
        /\ Finished(h) /\ hs[h].floatUpdateResult = "FLOAT_DEBIT_FAILED" /\ ~hs[h].caught
        /\ hs[h].amount = Num(5000) /\ floats[hs[h].floatName] = Doc(Num(2000))
        /\ transactions[hs[h].tx].status = "RECEIVED_FLOAT_ISSUE"

\* C7: a finished confirmation whose payment record was written was answered
\* with ResultCode 0, whatever failed afterwards.
C7_AlwaysAcknowledged ==
    \A h \in Handlers :
        /\ (hs[h].recorded /\ Finished(h)) => hs[h].resp.ResultCode = 0
        /\ (hs[h].resp # NoResponse) => hs[h].resp.ResultCode = 0

C7_Witness ==
    \E h \in Handlers :
        /\ Finished(h) /\ hs[h].recorded /\ hs[h].caught /\ hs[h].floatDebited
        /\ hs[h].resp.ResultCode = 0

\* C8: a sale stored as COMPLETED means its transaction debited the pool
\* exactly once and was never credited back.
C8_CompletedDebitedOnce ==
    \A i \in Handlers :
        (sales[i].exists /\ sales[i].status = "COMPLETED") =>
            /\ Cardinality({h \in HandlersOf(sales[i].relatedTransactionId) : hs[h].floatDebited}) = 1
            /\ \A h \in HandlersOf(sales[i].relatedTransactionId) : ~hs[h].credited

\* C11: when the destination number classifies as Unknown, no step of the
\* handler touches a pool or a sale or calls a provider, and it finishes with
\* the payment recorded as RECEIVED_FULFILLMENT_FAILED / FAILED_UNKNOWN_CARRIER,
\* an UNKNOWN_CARRIER error record and ResultCode 0.
C11_UnknownCarrier ==
    /\ [][\A h \in Handlers :
            (hs[h].targetCarrier = "Unknown" /\ hs'[h] # hs[h]) =>
                (floats' = floats /\ sales' = sales /\ ~hs'[h].called /\ ~hs'[h].floatDebited)]_vars
    /\ [][\A h \in Handlers :
            (hs[h].targetCarrier = "Unknown" /\ ~Finished(h)
                /\ hs'[h].pc = "done" /\ ~hs'[h].caught) =>
                /\ transactions'[hs[h].tx].exists
                /\ transactions'[hs[h].tx].status = "RECEIVED_FULFILLMENT_FAILED"
                /\ transactions'[hs[h].tx].fulfillmentStatus = "FAILED_UNKNOWN_CARRIER"
                /\ ErrorRecord("AIRTIME_SALE_ERROR", "UNKNOWN_CARRIER", hs[h], h) \in errors'
                /\ ~sales'[h].exists
                /\ hs'[h].resp.ResultCode = 0]_vars

C11_Witness ==
    \E h \in Handlers :
        /\ Finished(h) /\ hs[h].phone = Malformed /\ hs[h].targetCarrier = "Unknown"
        /\ ~hs[h].caught
        /\ transactions[hs[h].tx].fulfillmentStatus = "FAILED_UNKNOWN_CARRIER"

\* C12: once a confirmation has finished, a payment whose float debit
\* committed has exactly one sale with its id, and a payment whose debit
\* never committed has none.
C12_OneSalePerDebitedPayment ==
    \A h \in Handlers :
        (Finished(h) /\ hs[h].recorded /\ HandlersOf(hs[h].tx) = {h}) =>
            Cardinality(SalesOf(hs[h].tx)) = (IF hs[h].floatDebited THEN 1 ELSE 0)

\* C14 as claimed: a step that changes a pool balance is the commit of a
\* ledger adjust (the debit or the reversal credit) of some handler.
C14_OnlyLedgerWrites ==
    [][floats' # floats =>
        \E h \in Handlers : hs[h].pc \in {"debitCommit", "reverseCommit"} /\ hs'[h] # hs[h]]_vars

\* C14 amended: a step that changes a pool balance is the commit of a ledger
\* adjust, or it
\* is the overwrite of the Safaricom pool's balance with the balance that the
\* dealer API reported to that handler.
C14_LedgerOrReportedBalance ==
    [][floats' # floats =>
        \E h \in Handlers :
            /\ hs'[h] # hs[h]
            /\ \/ hs[h].pc \in {"debitCommit", "reverseCommit"}
               \/ /\ hs[h].pc = "reconcile"
                  /\ hs[h].result.newSafaricomFloatBalance \in ReportedBalances
                  /\ floats' = [floats EXCEPT !["safaricomFloat"].balance =
                                    hs[h].result.newSafaricomFloatBalance]]_vars

C14_Witness ==
    \E h \in Handlers :
        /\ hs[h].pc = "saleUpd" /\ hs[h].floatDebited
        /\ hs[h].result.newSafaricomFloatBalance \in ReportedBalances
        /\ floats["safaricomFloat"].balance = hs[h].result.newSafaricomFloatBalance

\* C15: an exception after the float debit committed ends with the record
\* FLOAT_RECONCILIATION_WARNING / FLOAT_DEBITED_BUT_DISPATCH_FAILED_EXCEPTION,
\* the payment marked RECEIVED_PROCESSING_ERROR by the catch block's update, no
\* pool change in the catch block and ResultCode 0; an exception before the
\* debit adds no such record. (Steps of the catch block that the store itself
\* rejects are outside the claim.)
C15_ReconciliationWarning ==
    /\ [](\A h \in Handlers :
            /\ (Finished(h) /\ hs[h].caught) => hs[h].resp.ResultCode = 0
            /\ (hs[h].caught /\ ~hs[h].floatDebited) =>
                  ~HasError("FLOAT_RECONCILIATION_WARNING",
                            "FLOAT_DEBITED_BUT_DISPATCH_FAILED_EXCEPTION", h))
    /\ [][\A h \in Handlers :
            (hs[h].caught /\ hs'[h] # hs[h]) => (floats' = floats /\ ~hs'[h].credited)]_vars
    /\ [][\A h \in Handlers :
            (hs[h].pc = "catchUpdTx" /\ hs'[h] # hs[h] /\ hs'[h].pc # "killed"
                /\ faults' = faults /\ transactions[hs[h].tx].exists) =>
                transactions'[hs[h].tx].status = "RECEIVED_PROCESSING_ERROR"]_vars
    /\ [][\A h \in Handlers :
            (hs[h].caught /\ hs[h].floatDebited /\ ~Finished(h) /\ hs'[h].pc = "done"
                /\ faults' = faults) =>
                /\ hs[h].pc = "catchAddWarn"
                /\ ErrorRecord("FLOAT_RECONCILIATION_WARNING",
                               "FLOAT_DEBITED_BUT_DISPATCH_FAILED_EXCEPTION", hs[h], h) \in errors'
                /\ hs'[h].resp.ResultCode = 0]_vars

C15_Witness ==
    \E h \in Handlers :
        /\ Finished(h) /\ hs[h].caught /\ hs[h].floatDebited /\ ~hs[h].credited
        /\ HasError("FLOAT_RECONCILIATION_WARNING", "FLOAT_DEBITED_BUT_DISPATCH_FAILED_EXCEPTION", h)
        /\ transactions[hs[h].tx].status = "RECEIVED_PROCESSING_ERROR"
        /\ \E g \in Handlers : Finished(g) /\ hs[g].caught /\ ~hs[g].floatDebited

\* C19: a provider call made by the handler returns a result whose status is
\* SUCCESS or FAILED; it never raises.
C19_GatewayNeverThrows ==
    \A h \in Handlers : hs[h].called => hs[h].result.status \in {"SUCCESS", "FAILED"}

\* ------------------------------------------------- claims on the ledger
\* a + b on amounts taken as decimals: the amount of n plus m hundredths
DecimalAdd(a, b) == IF a.t = "num" /\ b.t = "num" THEN Num(a.v + b.v) ELSE NaN

\* the decimal sum of the deltas that committed on pool p
RECURSIVE SumCommitted(_, _)
SumCommitted(p, h) ==
    IF h = <<>> THEN Num(0)
    ELSE LET e == h[Len(h)]
             before == SumCommitted(p, SubSeq(h, 1, Len(h) - 1))
         IN IF e.ok /\ e.name = p THEN DecimalAdd(before, e.amount) ELSE before

CommittedOn(p, h) == {i \in 1..Len(h) : h[i].ok /\ h[i].name = p}

\* the calls of h applied one after the other to the documents fl: the
\* documents afterwards, and whether every call got the outcome it has in h
RECURSIVE Replay(_, _)
Replay(fl, h) ==
    IF h = <<>> THEN [floats |-> fl, same |-> TRUE]
    ELSE LET e == Head(h)
             r == updateCarrierFloatBalance(fl, e.name, e.amount)
         IN IF e.reason = "STORE" THEN Replay(fl, Tail(h))
            ELSE LET rest == Replay(r.floats, Tail(h))
                 IN [floats |-> rest.floats,
                     same |-> /\ rest.same
                              /\ r.success = e.ok
                              /\ r.reason = e.reason
                              /\ r.success => r.floats[e.name].balance = e.newBalance]

\* the call of caller c ends in this step
EndsNow(c) ==
    /\ lg.calls[c].pc \in {"run", "commit"}
    /\ lg'.calls[c].pc \in {"returned", "raised"}

\* the balance the ledger starts from: the stored one as parseFloat reads it,
\* or 0 for a missing pool
OldBalance(name) ==
    IF lg.pools[name].exists THEN parseFloatOf(lg.pools[name].balance) ELSE Num(0)

\* C13: for a pool that did not exist at the start, after any sequence of
\* ledger calls the stored balance is the sum of the deltas of exactly the
\* calls that committed on it, and it is never below zero. (The sum is the
\* decimal sum, 0.30 - 0.10 being 0.20; once a NaN delta has committed, the
\* sum and the balance are both NaN.)
C13_BalanceIsSumOfCommitted ==
    \A p \in PoolNames :
        ~lg.start[p].exists =>
            /\ lg.pools[p].exists <=> CommittedOn(p, lg.hist) # {}
            /\ lg.pools[p].exists => lg.pools[p].balance = SumCommitted(p, lg.hist)
            /\ ~JsLtZero(lg.pools[p].balance)

\* C16: ledger calls that run concurrently on the same pool are serialised:
\* the stored balances, and the outcome of every call, are those of the
\* calls applied one after the other in the order in which they ended.
C16_Serialised ==
    LET rp == Replay(lg.start, lg.hist)
    IN rp.same /\ rp.floats = lg.pools

C16_Witness ==
    /\ Len(lg.hist) >= 2
    /\ Cardinality(CommittedOn("safaricomFloat", lg.hist)) = 2
    /\ \E c \in Callers : lg.calls[c].pc = "returned" /\ lg.calls[c].attempts > 0
    /\ lg.pools["safaricomFloat"].balance = Num(2000)

\* C17: on a pool that does not exist, a call with a delta >= 0 commits and
\* leaves the pool existing with the delta as its balance; a call with a
\* negative delta is refused as insufficient and the pool still does not exist.
C17_AbsentPoolBootstrap ==
    [][\A c \in Callers :
        LET call == lg.calls[c]
        IN (EndsNow(c) /\ call.name \in PoolNames /\ ~lg.pools[call.name].exists
                /\ lg'.calls[c].reason # "STORE" /\ call.amount.t = "num") =>
            IF call.amount.v >= 0
            THEN /\ lg'.calls[c].pc = "returned"
                 /\ lg'.pools[call.name] = Doc(call.amount)
            ELSE /\ lg'.calls[c].pc = "raised"
                 /\ lg'.calls[c].reason = "INSUFFICIENT"
                 /\ ~lg'.pools[call.name].exists]_vars

C17_Witness ==
    /\ ~lg.start["safaricomFloat"].exists
    /\ Len(lg.hist) = 2
    /\ lg.hist[1] = [name |-> "safaricomFloat", amount |-> Num(0 - 3000), ok |-> FALSE,
                     reason |-> "INSUFFICIENT", newBalance |-> Undefined]
    /\ lg.hist[2].ok /\ lg.hist[2].amount = Num(0)
    /\ lg.pools["safaricomFloat"] = Doc(Num(0))

\* C18: a ledger call raises exactly when the pool name is unknown, the stored
\* balance does not read as a number (a number kept as text does), the old
\* balance plus the delta is below zero or the store fails the transaction,
\* and then balance and lastUpdated are as before; a call that returns
\* returns the old balance plus the delta, which is the balance then stored.
\* (Old balance plus delta is the one addition of line 408, rounded to a
\* double: 0.30 and -0.10 give 0.19999999999999998.)
C18_FailedCallChangesNothing ==
    [][\A c \in Callers :
        LET call == lg.calls[c]
            refused == \/ call.name \notin PoolNames
                       \/ lg.pools[call.name].exists /\ IsNaN(OldBalance(call.name))
                       \/ JsLtZero(JsAdd(OldBalance(call.name), call.amount))
        IN EndsNow(c) =>
            /\ (lg'.calls[c].pc = "raised") <=> (refused \/ lg'.calls[c].reason = "STORE")
            /\ lg'.calls[c].pc = "raised" =>
                  /\ lg'.pools = lg.pools
                  /\ lg'.lastUpdated = lg.lastUpdated
            /\ lg'.calls[c].pc = "returned" =>
                  /\ lg'.calls[c].newBalance = JsAdd(OldBalance(call.name), call.amount)
                  /\ lg'.pools[call.name] = Doc(lg'.calls[c].newBalance)
                  /\ lg'.lastUpdated[call.name] > lg.lastUpdated[call.name]]_vars

C18_Witness ==
    /\ ~lg.start["safaricomFloat"].exists
    /\ Len(lg.hist) = 3
    /\ lg.hist[1].ok /\ lg.hist[1].amount = Num(30)
    /\ lg.hist[2].ok /\ lg.hist[2].amount = Num(0 - 10)
    /\ lg.hist[2].newBalance = JsAdd(Num(30), Num(0 - 10))
    /\ lg.hist[2].newBalance # Num(20)
    /\ lg.hist[3].amount = Num(0 - 20) /\ lg.hist[3].reason = "INSUFFICIENT"
    /\ lg.pools["safaricomFloat"] = Doc(lg.hist[2].newBalance)
    /\ lg.lastUpdated["safaricomFloat"] = 2

\* ------------------------------------------------- claims on the token cache
\* C20: a call returns the cached token only when a token is cached and the
\* time is strictly before the expiry, and then it returns that token;
\* otherwise it sends a request to the token endpoint; a request that fails
\* raises and leaves the cached token and the expiry as they were.
C20_TokenCache ==
    [][\A c \in TokenCallers :
        LET before == tk.calls[c]
            after == tk'.calls[c]
        IN /\ (before.pc # "fetching" /\ after # before) =>
                IF tk.cachedAirtimeToken # NoToken /\ tk.clock < tk.tokenExpiryTimestamp
                THEN /\ after.pc = "returned" /\ after.fromCache
                     /\ after.token = tk.cachedAirtimeToken
                ELSE after.pc = "fetching"
           /\ (before.pc = "fetching" /\ after.pc = "raised") =>
                /\ tk'.cachedAirtimeToken = tk.cachedAirtimeToken
                /\ tk'.tokenExpiryTimestamp = tk.tokenExpiryTimestamp
           /\ (before.pc = "fetching" /\ after.pc = "returned") =>
                /\ after.token = tk'.cachedAirtimeToken
                /\ ~after.fromCache]_vars

C20_Witness ==
    \E c, d \in TokenCallers :
        /\ tk.calls[c].pc = "returned" /\ tk.calls[c].fromCache
        /\ tk.calls[c].token = tk.cachedAirtimeToken
        /\ tk.calls[c].now + 1000 = tk.tokenExpiryTimestamp
        /\ tk.calls[d].pc = "raised"
        /\ tk.calls[d].now = tk.tokenExpiryTimestamp

\* C21: at most one request to the token endpoint is in flight at any time.
C21_SingleRefreshInFlight ==
    Cardinality({c \in TokenCallers : tk.calls[c].pc = "fetching"}) <= 1

\* C22: a handler that has written the payment record and has not finished
\* (and whose process is alive) can always take its next step; in particular
\* a provider call that is not answered is ended by a timeout.
C22_HandlerNeverStuck ==
    \A h \in Handlers :
        (hs[h].recorded /\ hs[h].pc \notin {"done", "killed"}) => ENABLED HandlerStep(h)

\* --------------------------------------------------- claims on the classifier
Digits == {Digit[i] : i \in 1..10}
PrefixTable == safaricom \cup airtel \cup telkom \cup equitel \cup faiba

\* C24: the three forms of one subscriber number (+254..., 254..., 0...)
\* get the same carrier, the prefix sets of the five carriers are pairwise
\* disjoint, and the prefixes 110..119 are Safaricom's.
C24_SameCarrierForAllForms ==
    /\ (cl.pc # "input" /\ cl.prefix \in Prefixes) =>
          /\ \A p \in Forms(cl.prefix) : detectCarrier(p) = cl.targetCarrier
          /\ cl.prefix \in 110..119 => cl.targetCarrier = "Safaricom"
          /\ cl.targetCarrier = "Safaricom" <=> Prefix3(cl.prefix) \in safaricom
          /\ cl.targetCarrier = "Airtel" <=> Prefix3(cl.prefix) \in airtel
          /\ cl.targetCarrier = "Telkom" <=> Prefix3(cl.prefix) \in telkom
          /\ cl.targetCarrier = "Equitel" <=> Prefix3(cl.prefix) \in equitel
          /\ cl.targetCarrier = "Faiba" <=> Prefix3(cl.prefix) \in faiba
    /\ \A A, B \in {safaricom, airtel, telkom, equitel, faiba} : A # B => A \cap B = {}

C24_Witness ==
    /\ cl.pc = "classified" /\ cl.prefix = 115
    /\ cl.phoneNumber = BareForm(115)
    /\ cl.targetCarrier = "Safaricom"

\* a number is malformed when, normalized, it has not 10 characters, does not
\* start with 0, has a prefix outside the table or holds a non-digit
IsMalformed(phoneNumber) ==
    LET normalized == Trim(ReplaceCountryCode(phoneNumber))
    IN \/ Len(normalized) # 10
       \/ ~StartsWith(normalized, <<"0">>)
       \/ SubSeq(normalized, 2, 4) \notin PrefixTable
       \/ \E i \in 1..Len(normalized) : normalized[i] \notin Digits

\* C25: every malformed number classifies as Unknown.
C25_MalformedIsUnknown ==
    (cl.pc # "input" /\ IsMalformed(cl.phoneNumber)) => cl.targetCarrier = "Unknown"

\* C26: every carrier other than Unknown resolves to a float pool, Safaricom
\* to its own and the other four to the Africa's Talking pool; the branch for
\* a missing mapping is never taken.
C26_EveryCarrierHasPool ==
    /\ cl.pc # "noFloatMapping"
    /\ cl.pc \in {"unknownCarrier", "resolved"} =>
          /\ cl.pc = "unknownCarrier" <=> cl.targetCarrier = "Unknown"
          /\ cl.pc = "resolved" => cl.floatName \in PoolNames
          /\ cl.targetCarrier = "Safaricom" => cl.floatName = "safaricomFloat"
          /\ cl.targetCarrier \in {"Airtel", "Telkom", "Equitel", "Faiba"} =>
                cl.floatName = "africasTalkingFloat"

C26_Witness ==
    /\ cl.pc = "resolved" /\ cl.targetCarrier = "Faiba"
    /\ cl.floatName = "africasTalkingFloat"

\* ------------------------------------------------ claims on /c2b-validation
\* the whole string, white space aside, is one decimal number
IsNumeric(str) ==
    LET t == Trim(str)
        u == IF t # <<>> /\ Head(t) \in {"-", "+"} THEN Tail(t) ELSE t
        d == DecimalPrefix(u)
    IN d.ok /\ d.len = Len(u)

\* C23: an answered validation request got ResultCode 1 exactly when its
\* declared amount is not numeric or is below 5, and 0 otherwise; payments,
\* sales and pools are as they were.
C23_ValidationByAmount ==
    /\ \A v \in Validators :
          vd[v].pc = "answered" =>
              /\ vd[v].resp.ResultCode \in {0, 1}
              /\ vd[v].resp.ResultCode = 1 <=>
                    (~IsNumeric(vd[v].TransAmount) \/ parseFloat(vd[v].TransAmount).v < MIN_AMOUNT)
    /\ transactions = [t \in TxIds |-> IF t = "T1" THEN StoredPayment ELSE NoTx]
    /\ sales = [i \in Handlers |-> NoSale]
    /\ floats = [p \in PoolNames |-> Doc(Num(100000))]

\* ------------------------------------------- further claims on the handler
\* C27: the stored status of every sale is one of PENDING_DISPATCH, COMPLETED,
\* FAILED_DISPATCH_API, FAILED_SERVER_ERROR.
C27_SaleStatusDomain ==
    \A i \in Handlers :
        sales[i].exists =>
            sales[i].status \in {"PENDING_DISPATCH", "COMPLETED", "FAILED_DISPATCH_API",
                                 "FAILED_SERVER_ERROR"}

C27_Witness ==
    \E i, j \in Handlers :
        /\ sales[i].exists /\ sales[i].status = "COMPLETED"
        /\ sales[j].exists /\ sales[j].status = "FAILED_SERVER_ERROR"
        /\ hs[j].targetCarrier # "Safaricom" /\ hs[j].result.status = "FAILED"

\* C28: the balance overwrite is attempted only for a result with status
\* SUCCESS that carries a reported balance, and only on the pool that was
\* debited; and a handler whose dispatch succeeded ends with its sale
\* COMPLETED also when the overwrite failed.
C28_OverwriteOnlyOnReportedSuccess ==
    \A h \in Handlers :
        /\ hs[h].pc = "reconcile" =>
              /\ hs[h].result.status = "SUCCESS"
              /\ hs[h].result.newSafaricomFloatBalance \in ReportedBalances
              /\ hs[h].floatName = "safaricomFloat"
        /\ (Finished(h) /\ faults = 0 /\ hs[h].result.status = "SUCCESS"
                /\ hs[h].result.newSafaricomFloatBalance # Null) =>
              sales[h].status = "COMPLETED"

\* C29: within one handler the payment record is written before the debit,
\* the debit commits before the sale is written, the sale is written before
\* the provider is called (its token endpoint included), the provider is
\* called before a credit-back and
\* before the sale's final status, and the sale's final status is written
\* before the payment's.
C29_StepOrder ==
    \A h \in Handlers :
        /\ hs[h].floatDebited => hs[h].recorded
        /\ sales[h].exists => hs[h].floatDebited
        /\ (hs[h].called \/ hs[h].pc \in {"tokenPost", "dispatch"}) =>
              (hs[h].floatDebited /\ sales[h].exists)
        /\ hs[h].credited => hs[h].called
        /\ (sales[h].exists /\ sales[h].status \in {"COMPLETED", "FAILED_DISPATCH_API"}) =>
              hs[h].called
        /\ (hs[h].tx \in TxIds /\ transactions[hs[h].tx].linkedSaleId = h) =>
              (sales[h].exists /\ sales[h].status # "PENDING_DISPATCH")

C29_Witness ==
    \E h \in Handlers :
        /\ Finished(h) /\ hs[h].called /\ hs[h].floatDebited
        /\ sales[h].status = "COMPLETED"
        /\ transactions[hs[h].tx].linkedSaleId = h
        /\ transactions[hs[h].tx].status = "RECEIVED_FULFILLED"

\* C30: when a handler that wrote the payment record has finished and no
\* store write failed, the payment's stored status is RECEIVED_FULFILLED,
\* RECEIVED_FULFILLMENT_FAILED, RECEIVED_FLOAT_ISSUE or RECEIVED_PROCESSING_ERROR.
C30_TerminalStatusStored ==
    \A h \in Handlers :
        (Finished(h) /\ hs[h].recorded /\ faults = 0) =>
            transactions[hs[h].tx].status \in
                {"RECEIVED_FULFILLED", "RECEIVED_FULFILLMENT_FAILED", "RECEIVED_FLOAT_ISSUE",
                 "RECEIVED_PROCESSING_ERROR"}

\* ------------------------------------------------- the records' life cycle
\* C31: no step removes or changes an error record (the collection only
\* grows), no step removes a payment or a sale, and a write to an existing
\* payment or sale is a field patch. A patch of a payment leaves the fields
\* of its creation as they are and never takes it back to the status it was
\* created with; a patch of a sale leaves its payment, amount and carrier.
C31_AppendAndPatchOnly ==
    [][/\ errors \subseteq errors'
       /\ \A t \in TxIds :
             transactions[t].exists =>
                 /\ transactions'[t].exists
                 /\ transactions'[t].createdAt = transactions[t].createdAt
                 /\ transactions'[t].amountReceived = transactions[t].amountReceived
                 /\ transactions'[t].billRefNumber = transactions[t].billRefNumber
                 /\ transactions'[t].status = "RECEIVED_PENDING_SALE" =>
                        transactions[t].status = "RECEIVED_PENDING_SALE"
       /\ \A i \in Handlers :
             sales[i].exists =>
                 /\ sales'[i].exists
                 /\ sales'[i].relatedTransactionId = sales[i].relatedTransactionId
                 /\ sales'[i].amount = sales[i].amount
                 /\ sales'[i].carrier = sales[i].carrier]_vars

\* C32: a write to an existing payment leaves its amountReceived,
\* billRefNumber and createdAt as they were.
C32_PaymentIdentityImmutable ==
    [][\A t \in TxIds :
          transactions[t].exists =>
              /\ transactions'[t].amountReceived = transactions[t].amountReceived
              /\ transactions'[t].billRefNumber = transactions[t].billRefNumber
              /\ transactions'[t].createdAt = transactions[t].createdAt]_vars

\* the step with which handler h finishes on the full path: its final payment
\* update went through
FinishesFullPath(h) == hs[h].pc = "txUpd" /\ hs'[h].pc = "done" /\ ~hs'[h].caught

\* C33: when a handler finishes on the full path, the payment's linkedSaleId
\* names a sale of that payment with the payment's amount, the payment's
\* fulfillmentStatus is that sale's status, and the payment is
\* RECEIVED_FULFILLED exactly when the sale is COMPLETED and
\* RECEIVED_FULFILLMENT_FAILED otherwise.
C33_PaymentMatchesSale ==
    [][\A h \in Handlers :
          FinishesFullPath(h) =>
              LET payment == transactions'[hs[h].tx]
                  sale == sales'[payment.linkedSaleId]
              IN /\ payment.linkedSaleId \in Handlers
                 /\ sale.exists
                 /\ sale.relatedTransactionId = hs[h].tx
                 /\ sale.amount = payment.amountReceived
                 /\ payment.fulfillmentStatus = sale.status
                 /\ payment.status = (IF sale.status = "COMPLETED" THEN "RECEIVED_FULFILLED"
                                      ELSE "RECEIVED_FULFILLMENT_FAILED")]_vars

\* C34: on every path the handler calls res.json exactly once, and, when no
\* store operation was rejected, no exception leaves the handler.
C34_RespondsExactlyOnce ==
    \A h \in Handlers :
        /\ hs[h].resCalls <= 1
        /\ Finished(h) => hs[h].resCalls = 1
        /\ faults = 0 => ~hs[h].escaped

\* C35: a handler that answered with ResultCode 0 has a payment record for
\* its transaction id in the store.
C35_AckOnlyWhenRecorded ==
    \A h \in Handlers :
        hs[h].resp.ResultCode = 0 => transactions[hs[h].tx].exists

\* C36: no pool holds a non-numeric balance, and a handler whose amount is
\* not a number debits no pool and calls no provider.
C36_InvalidAmountTouchesNothing ==
    /\ \A p \in PoolNames : floats[p].exists => ~IsNaN(floats[p].balance)
    /\ \A h \in Handlers :
          hs[h].amount = NaN => (~hs[h].floatDebited /\ ~hs[h].called)

\* C37: a sale stored as COMPLETED keeps that status, and a handler whose
\* provider answered SUCCESS does not finish with its payment stored as
\* RECEIVED_PROCESSING_ERROR.
C37_FinalStatusStable ==
    [][/\ \A i \in Handlers :
             (sales[i].exists /\ sales[i].status = "COMPLETED") =>
                 sales'[i].status = "COMPLETED"
       /\ \A h \in Handlers :
             (hs[h].pc # "done" /\ hs'[h].pc = "done" /\ hs'[h].result.status = "SUCCESS"
                 /\ HandlersOf(hs[h].tx) = {h}) =>
                 transactions'[hs[h].tx].status # "RECEIVED_PROCESSING_ERROR"]_vars

\* --------------------------------------- claims on the deduction endpoint
\* what the request asks for, read from its body alone
WellFormed(body) ==
    /\ body.amount.t = "num" /\ body.amount.v > 0
    /\ body.status # <<>> /\ body.telco # "" /\ body.transactionId # ""
MappedTelco(telco) == telco \in {"Safaricom", "Airtel", "Telkom", "Africastalking"}
NumericBalance(doc) == doc.exists /\ doc.balance.t = "num"

\* C38: in every variant, an answered request with invalid data or (asking
\* for a deduction) an unmapped telco got 400 and committed nothing; a
\* well-formed one whose status asks for no deduction got 200 and committed
\* nothing; one that found the pool missing, its balance not a number or too
\* small got 500 and committed nothing; a committed deduction was answered
\* 200 and took the amount off the mapped pool; no balance is negative.
C38_PurchaseOutcomes ==
    /\ \A c \in FloatCollections :
          NumericBalance(pu.pools[c].doc) => ~JsLtZero(pu.pools[c].doc.balance)
    /\ \A r \in Requesters :
          LET q == pu.reqs[r]
              asks == NeedsDeduction(pu.variant, q.body.status)
          IN q.pc = "answered" =>
                /\ (~WellFormed(q.body) \/ (asks /\ ~MappedTelco(q.body.telco))) =>
                      (q.code = 400 /\ ~q.committed)
                /\ (WellFormed(q.body) /\ ~asks) => (q.code = 200 /\ ~q.committed)
                /\ (WellFormed(q.body) /\ asks /\ MappedTelco(q.body.telco) /\ pu.failed = 0) =>
                      IF NumericBalance(q.found) /\ q.found.balance.v >= q.body.amount.v
                      THEN q.code = 200 /\ q.committed
                      ELSE q.code = 500 /\ ~q.committed
                /\ q.code = 500 => ~q.committed
                /\ q.committed =>
                      /\ q.code = 200
                      /\ q.floatCollectionId = getFloatCollectionId(q.body.telco)
                      /\ q.before.t = "num" /\ q.body.amount.t = "num"
                      /\ q.newBalance = Num(q.before.v - q.body.amount.v)

\* C39: a request that repeats one already answered with a committed
\* deduction (same transactionId, amount, telco and status) deducts nothing.
C39_DeductedOncePerTransaction ==
    \A r \in Requesters :
        (pu.reqs[r].pc = "answered" /\ pu.reqs[r].repeat) => ~pu.reqs[r].committed

====
